---- MODULE Spec2Model ----
(***************************************************************************)
(* Model of the MongoDB device-inventory data store                        *)
(* (store/mongo/datastore_mongo.go).                                       *)
(*                                                                         *)
(* The collection is a sequence of documents in natural (insertion) order. *)
(* A document is [_id, attributes]; attributes maps the composite key      *)
(* "scope-name" to a sub-document holding a subset of the fields scope,    *)
(* name, value, description.  A dotted field path "a.b.c" is the sequence  *)
(* <<"a", "b", "c">>.  Every call against the collection (UpdateOne,       *)
(* UpdateMany, DeleteOne, FindOne, Aggregate, Distinct) is one atomic      *)
(* step; a handler that does more than one thing (reads the clock and then *)
(* writes, or issues two calls) is split at those points so that callers   *)
(* interleave there.                                                       *)
(***************************************************************************)
EXTENDS Integers, Sequences, FiniteSets, TLC

VARIABLES db, clock, pc, call, ret, written, once, clientGlobal, connects

(* The process-wide connection state: once and clientGlobal are the       *)
(* package variables; connects is the history of mongo.Connect calls.      *)
session == <<once, clientGlobal, connects>>

vars == <<db, clock, pc, call, ret, written, once, clientGlobal, connects>>

-----------------------------------------------------------------------------
(* Names fixed by the source. *)

DbDevId == "_id"
DbDevAttributes == "attributes"
DbDevGroup == "group"
DbDevAttributesDesc == "description"
DbDevAttributesValue == "value"
DbDevAttributesScope == "scope"
DbDevAttributesName == "name"

(* Names of package model and package store, used but not defined in the   *)
(* data store's file.                                                      *)
AttrScopeInventory == "inventory"
AttrScopeSystem == "system"
AttrNameGroup == "group"
AttrNameUpdated == "updated"
AttrNameCreated == "created"
NilDeviceID == ""

NoErr == "nil"
ErrNoAttrName == "ErrNoAttrName"
ErrDevNotFound == "ErrDevNotFound"
ErrGroupNotFound == "ErrGroupNotFound"
ErrWrite == "WriteError"

(* What the Go runtime raises when a nil pointer is dereferenced; the call *)
(* does not return to its caller.                                         *)
Panic == "panic: nil pointer dereference"

-----------------------------------------------------------------------------
(* Values.  A BSON value carries its type, so a string never equals a      *)
(* number or a timestamp.  Nil is Go's nil interface / nil pointer.        *)

Str(s) == [str |-> s]
Num(n) == [num |-> n]
Time(t) == [time |-> t]
Nil == [nil |-> TRUE]

EmptyM == <<>>

Put(m, k, v) == [x \in (DOMAIN m) \cup {k} |-> IF x = k THEN v ELSE m[x]]

Attr(scope, name, value, description) ==
    [Scope |-> scope, Name |-> name, Value |-> value, Description |-> description]

-----------------------------------------------------------------------------
(* Attribute merge engine. *)

(* fmt.Sprintf("%s.%s-%s", DbDevAttributes, attrScope, attrName) followed  *)
(* by the sub-fields, joined with ".".                                     *)
makeAttrField(attrName, attrScope, subFields) ==
    <<DbDevAttributes, attrScope \o "-" \o attrName>> \o subFields

(* makeAttrUpsertFrom with the name check lost: an attribute without a     *)
(* name is passed over and the rest of the batch is written.               *)
RECURSIVE makeAttrUpsertFrom_SkipsUnnamed(_, _, _)
makeAttrUpsertFrom_SkipsUnnamed(attrs, i, upsert) ==
    IF i > Len(attrs) THEN [err |-> NoErr, upsert |-> upsert]
    ELSE IF attrs[i].Name = "" THEN makeAttrUpsertFrom_SkipsUnnamed(attrs, i + 1, upsert)
    ELSE
      LET scope == IF attrs[i].Scope = "" THEN AttrScopeInventory ELSE attrs[i].Scope
          name == attrs[i].Name
          u1 == Put(upsert, makeAttrField(name, scope, <<DbDevAttributesScope>>), scope)
          u2 == Put(u1, makeAttrField(name, scope, <<DbDevAttributesName>>), name)
          u3 == IF attrs[i].Value # Nil
                THEN Put(u2, makeAttrField(name, scope, <<DbDevAttributesValue>>),
                         attrs[i].Value)
                ELSE u2
          u4 == IF attrs[i].Description # Nil
                THEN Put(u3, makeAttrField(name, scope, <<DbDevAttributesDesc>>),
                         attrs[i].Description)
                ELSE u3
      IN makeAttrUpsertFrom_SkipsUnnamed(attrs, i + 1, u4)

(* makeAttrUpsertFrom with the nil checks lost: value and description are  *)
(* written for every attribute, as null when the submission has none.      *)
RECURSIVE makeAttrUpsertFrom_WritesNil(_, _, _)
makeAttrUpsertFrom_WritesNil(attrs, i, upsert) ==
    IF i > Len(attrs) THEN [err |-> NoErr, upsert |-> upsert]
    ELSE IF attrs[i].Name = "" THEN [err |-> ErrNoAttrName, upsert |-> EmptyM]
    ELSE
      LET scope == IF attrs[i].Scope = "" THEN AttrScopeInventory ELSE attrs[i].Scope
          name == attrs[i].Name
          u1 == Put(upsert, makeAttrField(name, scope, <<DbDevAttributesScope>>), scope)
          u2 == Put(u1, makeAttrField(name, scope, <<DbDevAttributesName>>), name)
          u3 == Put(u2, makeAttrField(name, scope, <<DbDevAttributesValue>>),
                    attrs[i].Value)
          u4 == Put(u3, makeAttrField(name, scope, <<DbDevAttributesDesc>>),
                    attrs[i].Description)
      IN makeAttrUpsertFrom_WritesNil(attrs, i + 1, u4)

(* makeAttrUpsertFrom with the field names composed from the scope as     *)
(* submitted and the default applied to the stored scope only.             *)
RECURSIVE makeAttrUpsertFrom_RawScopeKey(_, _, _)
makeAttrUpsertFrom_RawScopeKey(attrs, i, upsert) ==
    IF i > Len(attrs) THEN [err |-> NoErr, upsert |-> upsert]
    ELSE IF attrs[i].Name = "" THEN [err |-> ErrNoAttrName, upsert |-> EmptyM]
    ELSE
      LET scope == IF attrs[i].Scope = "" THEN AttrScopeInventory ELSE attrs[i].Scope
          name == attrs[i].Name
          raw == attrs[i].Scope
          u1 == Put(upsert, makeAttrField(name, raw, <<DbDevAttributesScope>>), scope)
          u2 == Put(u1, makeAttrField(name, raw, <<DbDevAttributesName>>), name)
          u3 == IF attrs[i].Value # Nil
                THEN Put(u2, makeAttrField(name, raw, <<DbDevAttributesValue>>),
                         attrs[i].Value)
                ELSE u2
          u4 == IF attrs[i].Description # Nil
                THEN Put(u3, makeAttrField(name, raw, <<DbDevAttributesDesc>>),
                         attrs[i].Description)
                ELSE u3
      IN makeAttrUpsertFrom_RawScopeKey(attrs, i + 1, u4)

(* makeAttrUpsertFrom with the scope stored as submitted, never defaulted. *)
RECURSIVE makeAttrUpsertFrom_NoDefault(_, _, _)
makeAttrUpsertFrom_NoDefault(attrs, i, upsert) ==
    IF i > Len(attrs) THEN [err |-> NoErr, upsert |-> upsert]
    ELSE IF attrs[i].Name = "" THEN [err |-> ErrNoAttrName, upsert |-> EmptyM]
    ELSE
      LET scope == attrs[i].Scope
          name == attrs[i].Name
          u1 == Put(upsert, makeAttrField(name, scope, <<DbDevAttributesScope>>), scope)
          u2 == Put(u1, makeAttrField(name, scope, <<DbDevAttributesName>>), name)
          u3 == IF attrs[i].Value # Nil
                THEN Put(u2, makeAttrField(name, scope, <<DbDevAttributesValue>>),
                         attrs[i].Value)
                ELSE u2
          u4 == IF attrs[i].Description # Nil
                THEN Put(u3, makeAttrField(name, scope, <<DbDevAttributesDesc>>),
                         attrs[i].Description)
                ELSE u3
      IN makeAttrUpsertFrom_NoDefault(attrs, i + 1, u4)

(* One pass of the loop of makeAttrUpsert over attrs[i..]; upsert is the   *)
(* bson.M built so far (field path -> value).                              *)
RECURSIVE makeAttrUpsertFrom(_, _, _)
makeAttrUpsertFrom(attrs, i, upsert) ==
    IF i > Len(attrs) THEN [err |-> NoErr, upsert |-> upsert]
    ELSE IF attrs[i].Name = "" THEN [err |-> ErrNoAttrName, upsert |-> EmptyM]
    ELSE
      LET scope == IF attrs[i].Scope = "" THEN AttrScopeInventory ELSE attrs[i].Scope
          name == attrs[i].Name
          u1 == Put(upsert, makeAttrField(name, scope, <<DbDevAttributesScope>>), scope)
          u2 == Put(u1, makeAttrField(name, scope, <<DbDevAttributesName>>), name)
          u3 == IF attrs[i].Value # Nil
                THEN Put(u2, makeAttrField(name, scope, <<DbDevAttributesValue>>),
                         attrs[i].Value)
                ELSE u2
          u4 == IF attrs[i].Description # Nil
                THEN Put(u3, makeAttrField(name, scope, <<DbDevAttributesDesc>>),
                         attrs[i].Description)
                ELSE u3
      IN makeAttrUpsertFrom(attrs, i + 1, u4)

makeAttrUpsert(attrs) == makeAttrUpsertFrom(attrs, 1, EmptyM)

(* The sub-document a model.DeviceAttribute is stored as when it is        *)
(* written whole.                                                          *)
MarshalAttr(a) ==
    LET e1 == [scope |-> a.Scope, name |-> a.Name]
        e2 == IF a.Value # Nil THEN Put(e1, DbDevAttributesValue, a.Value) ELSE e1
    IN IF a.Description # Nil THEN Put(e2, DbDevAttributesDesc, a.Description) ELSE e2

-----------------------------------------------------------------------------
(* The document store: what the driver calls the handlers issue do to the  *)
(* collection.                                                             *)

Ids(coll) == {coll[i]._id : i \in 1..Len(coll)}

Index(coll, id) == CHOOSE i \in 1..Len(coll) : coll[i]._id = id

Doc(coll, id) == coll[Index(coll, id)]

IsPrefix(p, q) == Len(p) <= Len(q) /\ SubSeq(q, 1, Len(p)) = p

(* The server refuses an update in which two modified paths overlap.       *)
PathConflict(set, setOnInsert) ==
    \/ (DOMAIN set) \cap (DOMAIN setOnInsert) # {}
    \/ \E p \in (DOMAIN set) \cup (DOMAIN setOnInsert) :
         \E q \in (DOMAIN set) \cup (DOMAIN setOnInsert) : p # q /\ IsPrefix(p, q)

(* $set of the paths of `set` on an attributes object: a path of length 2  *)
(* replaces the whole sub-document, a path of length 3 sets one field and  *)
(* creates the sub-document when it is missing.                            *)
ApplySet(attributes, set) ==
    LET keys == (DOMAIN attributes) \cup {p[2] : p \in DOMAIN set}
        old(k) == IF k \in DOMAIN attributes THEN attributes[k] ELSE EmptyM
        fields(k) == (DOMAIN old(k)) \cup {p[3] : p \in {q \in DOMAIN set : Len(q) = 3 /\ q[2] = k}}
    IN [k \in keys |->
          IF <<DbDevAttributes, k>> \in DOMAIN set THEN set[<<DbDevAttributes, k>>]
          ELSE [f \in fields(k) |->
                  IF <<DbDevAttributes, k, f>> \in DOMAIN set
                  THEN set[<<DbDevAttributes, k, f>>]
                  ELSE old(k)[f]]]

(* $unset of one attribute key. *)
ApplyUnset(attributes, k) == [x \in (DOMAIN attributes) \ {k} |-> attributes[x]]

(* The upsert as a write of the whole document: what the matched document *)
(* held is replaced by the $set fields.                                    *)
UpdateOneUpsert_Replace(coll, id, set, setOnInsert) ==
    IF PathConflict(set, setOnInsert) THEN [err |-> ErrWrite, coll |-> coll]
    ELSE IF id \in Ids(coll)
    THEN [err |-> NoErr,
          coll |-> [coll EXCEPT ![Index(coll, id)].attributes = ApplySet(EmptyM, set)]]
    ELSE [err |-> NoErr,
          coll |-> Append(coll, [_id |-> id,
                                 attributes |-> ApplySet(ApplySet(EmptyM, setOnInsert), set)])]

(* UpdateOne(filter {_id: id}, {$set, $setOnInsert}, upsert=true). *)
UpdateOneUpsert(coll, id, set, setOnInsert) ==
    IF PathConflict(set, setOnInsert) THEN [err |-> ErrWrite, coll |-> coll]
    ELSE IF id \in Ids(coll)
    THEN [err |-> NoErr,
          coll |-> [coll EXCEPT ![Index(coll, id)].attributes = ApplySet(@, set)]]
    ELSE [err |-> NoErr,
          coll |-> Append(coll, [_id |-> id,
                                 attributes |-> ApplySet(ApplySet(EmptyM, setOnInsert), set)])]

(* DeleteOne(filter {_id: id}). *)
DeleteOne(coll, id) ==
    IF id \in Ids(coll)
    THEN [deletedCount |-> 1,
          coll |-> SubSeq(coll, 1, Index(coll, id) - 1)
                   \o SubSeq(coll, Index(coll, id) + 1, Len(coll))]
    ELSE [deletedCount |-> 0, coll |-> coll]

(* Field paths of the group attribute. *)
DbDevAttributesGroup == <<DbDevAttributes, AttrScopeSystem \o "-" \o AttrNameGroup>>
DbDevAttributesGroupValue == DbDevAttributesGroup \o <<DbDevAttributesValue>>

(* The value at a path attributes.<key>.value of a document; Missing when  *)
(* the path does not exist.                                                *)
Missing == [missing |-> TRUE]

ValueAt(doc, path) ==
    IF path[2] \in DOMAIN doc.attributes /\ path[3] \in DOMAIN doc.attributes[path[2]]
    THEN doc.attributes[path[2]][path[3]]
    ELSE Missing

(* $exists asked of the value field of the entry instead of the entry. *)
MatchExists_Value(doc, path, b) ==
    (ValueAt(doc, path \o <<DbDevAttributesValue>>) # Missing) = b

(* {path: {$exists: b}} for a path attributes.<key>. *)
MatchExists(doc, path, b) == (path[2] \in DOMAIN doc.attributes) = b

(* {path: {$eq: v}}: the stored value equals v (the modelled values are    *)
(* scalars); a missing field equals nothing.                               *)
MatchEq(doc, path, v) == ValueAt(doc, path) = v

(* The order $sort puts values in: a missing field first, then numbers,    *)
(* then strings, then dates; strings in binary order, which for the        *)
(* strings of the model is their position in Collation.                    *)
Collation == <<"", "X", "Y", "d", "g1", "g2">>

StrPos(str) == CHOOSE i \in 1..Len(Collation) : Collation[i] = str

TypeRank(v) ==
    IF DOMAIN v = {"num"} THEN 2
    ELSE IF DOMAIN v = {"str"} THEN 3
    ELSE IF DOMAIN v = {"time"} THEN 9
    ELSE 1

BsonLess(a, b) ==
    \/ TypeRank(a) < TypeRank(b)
    \/ /\ TypeRank(a) = TypeRank(b)
       /\ \/ DOMAIN a = {"num"} /\ a.num < b.num
          \/ DOMAIN a = {"str"} /\ StrPos(a.str) < StrPos(b.str)
          \/ DOMAIN a = {"time"} /\ a.time < b.time

(* UpdateMany / UpdateOne without upsert: hits are the positions of the    *)
(* documents the filter matches and updated[i] the attributes the update   *)
(* gives document i; the update is applied to the hits, to the first of    *)
(* them only when one is TRUE; MatchedCount counts the documents matched,  *)
(* ModifiedCount those the update changed.                                 *)
UpdateDocs(coll, hits, updated, one) ==
    LET sel == IF one /\ hits # {} THEN {CHOOSE i \in hits : \A j \in hits : i <= j}
               ELSE hits
    IN [matchedCount |-> Cardinality(sel),
        modifiedCount |->
            Cardinality({i \in sel : updated[i] # coll[i].attributes}),
        coll |-> [i \in 1..Len(coll) |->
                    IF i \in sel
                    THEN [coll[i] EXCEPT !.attributes = updated[i]]
                    ELSE coll[i]]]

-----------------------------------------------------------------------------
(* Bounds and inputs. *)

MaxClock == 2
Procs == {"p1", "p2"}

DeviceIDs == {"d1", "d2", "d3"}

Groups == {"g1", "g2"}

Device(id, attrs, group) == [ID |-> id, Attributes |-> attrs, Group |-> group]

(* Submitted attributes: a value only, a description only, an explicit     *)
(* scope with another value, a missing name, a reserved system attribute,  *)
(* and two pairs whose scope and name differ but compose to the same key.  *)
SnValue == Attr("", "sn", Str("X"), Nil)
SnDescription == Attr("", "sn", Nil, Str("d"))
SnScoped == Attr(AttrScopeInventory, "sn", Str("Y"), Nil)
NoName == Attr("", "", Str("X"), Nil)
SystemCreated == Attr(AttrScopeSystem, AttrNameCreated, Str("X"), Nil)
SnHw == Attr(AttrScopeInventory, "sn-hw", Str("X"), Nil)
Hw == Attr("inventory-sn", "hw", Str("Y"), Nil)

MergeBatches ==
    { <<>>, <<SnValue>>, <<SnDescription>>, <<SnScoped>>, <<NoName>>,
      <<SnValue, NoName>>, <<SnValue, SnDescription>>, <<SystemCreated>>,
      <<SnHw>>, <<Hw>> }

(* Device d1 takes every batch; d2 takes the empty one only, it is there   *)
(* to show what a call on one device does to another.                      *)
MergeInputs == {<<"d1", b>> : b \in MergeBatches} \cup {<<"d2", <<>>>>}

MergeDevices == {Device("d1", <<>>, ""), Device("d1", <<SnValue>>, "g1")}

-----------------------------------------------------------------------------
(* State. *)

Idle == [op |-> "idle"]

(* ret: what the last call to return was given and what it returned.       *)
(* written[id]: the latest time a call on device id that has returned has  *)
(* stamped (0 when there was none); history only, no handler reads it.     *)
Result(op, id, arg, err, val) ==
    [op |-> op, id |-> id, arg |-> arg, err |-> err, val |-> val]

Init ==
    /\ db = <<>>
    /\ clock = 1
    /\ pc = [p \in Procs |-> "idle"]
    /\ call = [p \in Procs |-> Idle]
    /\ ret = Result("none", NilDeviceID, Nil, NoErr, Nil)
    /\ written = [id \in DeviceIDs |-> 0]
    /\ once = "new"
    /\ clientGlobal = Nil
    /\ connects = <<>>

(* Time passes; time.Now() reads clock. *)
Tick ==
    /\ clock < MaxClock
    /\ clock' = clock + 1
    /\ UNCHANGED <<db, pc, call, ret, written, session>>

-----------------------------------------------------------------------------
(* UpsertAttributes and AddDevice. *)

updatedField == <<DbDevAttributes, AttrScopeSystem \o "-" \o AttrNameUpdated>>
createdField == <<DbDevAttributes, AttrScopeSystem \o "-" \o AttrNameCreated>>

(* UpsertUpdate with 'created' put into $set next to 'updated'. *)
UpsertUpdate_CreatedInSet(attrs, now) ==
    LET r == makeAttrUpsert(attrs)
    IN IF r.err # NoErr
       THEN [err |-> r.err, set |-> EmptyM, setOnInsert |-> EmptyM]
       ELSE [err |-> NoErr,
             set |-> Put(Put(r.upsert, updatedField,
                             MarshalAttr(Attr(AttrScopeSystem, AttrNameUpdated, Time(now), Nil))),
                         createdField,
                         MarshalAttr(Attr(AttrScopeSystem, AttrNameCreated, Time(now), Nil))),
             setOnInsert |-> EmptyM]

(* UpsertUpdate with 'updated' put into $setOnInsert next to 'created'. *)
UpsertUpdate_UpdatedOnInsert(attrs, now) ==
    LET r == makeAttrUpsert(attrs)
    IN IF r.err # NoErr
       THEN [err |-> r.err, set |-> EmptyM, setOnInsert |-> EmptyM]
       ELSE [err |-> NoErr,
             set |-> r.upsert,
             setOnInsert |-> Put(Put(EmptyM, createdField,
                             MarshalAttr(Attr(AttrScopeSystem, AttrNameCreated, Time(now), Nil))),
                         updatedField,
                         MarshalAttr(Attr(AttrScopeSystem, AttrNameUpdated, Time(now), Nil)))]

(* The update document UpsertAttributes builds from attrs at time now. *)
UpsertUpdate(attrs, now) ==
    LET r == makeAttrUpsert(attrs)
    IN IF r.err # NoErr
       THEN [err |-> r.err, set |-> EmptyM, setOnInsert |-> EmptyM]
       ELSE [err |-> NoErr,
             set |-> Put(r.upsert, updatedField,
                         MarshalAttr(Attr(AttrScopeSystem, AttrNameUpdated, Time(now), Nil))),
             setOnInsert |-> Put(EmptyM, createdField,
                         MarshalAttr(Attr(AttrScopeSystem, AttrNameCreated, Time(now), Nil)))]

(* UpsertAttributes run to completion with the clock read as now. *)
UpsertAttributesResult(coll, id, attrs, now) ==
    LET u == UpsertUpdate(attrs, now)
    IN IF u.err # NoErr THEN [err |-> u.err, coll |-> coll]
       ELSE UpdateOneUpsert(coll, id, u.set, u.setOnInsert)

Stamped(w, id, err, now) ==
    IF err = NoErr /\ now > w[id] THEN [w EXCEPT ![id] = now] ELSE w

UpsertAttributes(id, attrs) ==
    LET r == UpsertAttributesResult(db, id, attrs, clock)
    IN /\ db' = r.coll
       /\ ret' = Result("UpsertAttributes", id, attrs, r.err, Nil)
       /\ written' = Stamped(written, id, r.err, clock)
       /\ UNCHANGED <<clock, pc, call, session>>

(* errors.Wrap(err, "failed to store device") *)
WrapStore(err) == IF err = NoErr THEN NoErr ELSE "failed to store device: " \o err

(* The group of the device is not turned into an attribute. *)
AddDeviceAttrs_NoGroup(dev) == dev.Attributes

(* The attributes AddDevice hands to UpsertAttributes. *)
AddDeviceAttrs(dev) ==
    IF dev.Group # ""
    THEN Append(dev.Attributes, Attr(AttrScopeSystem, AttrNameGroup, Str(dev.Group), Nil))
    ELSE dev.Attributes

(* dev is a pointer and dev.Group is read before anything else: a nil dev   *)
(* ends the call in a panic.                                               *)
AddDevice(dev) ==
    IF dev = Nil
    THEN /\ ret' = Result("AddDevice", NilDeviceID, Nil, Panic, Nil)
         /\ UNCHANGED <<db, clock, pc, call, written, session>>
    ELSE LET r == UpsertAttributesResult(db, dev.ID, AddDeviceAttrs(dev), clock)
         IN /\ db' = r.coll
            /\ ret' = Result("AddDevice", dev.ID, dev, WrapStore(r.err), Nil)
            /\ written' = Stamped(written, dev.ID, r.err, clock)
            /\ UNCHANGED <<clock, pc, call, session>>

(* The deleted count is not looked at. *)
DeleteDevice_NoCount(id) ==
    LET r == DeleteOne(db, id)
    IN /\ db' = r.coll
       /\ ret' = Result("DeleteDevice", id, Nil, NoErr, Nil)
       /\ UNCHANGED <<clock, pc, call, written, session>>

DeleteDevice(id) ==
    LET r == DeleteOne(db, id)
    IN /\ db' = r.coll
       /\ ret' = Result("DeleteDevice", id, Nil,
                        IF r.deletedCount < 1 THEN ErrDevNotFound ELSE NoErr, Nil)
       /\ UNCHANGED <<clock, pc, call, written, session>>

(* The same two handlers as their callers interleave: the first step runs  *)
(* makeAttrUpsert and reads the clock, the second is the UpdateOne.  seen  *)
(* is written[id] when the call starts.                                    *)
UpsertAttributesCall(p, id, attrs) ==
    LET u == UpsertUpdate(attrs, clock)
    IN /\ pc[p] = "idle"
       /\ IF u.err # NoErr
          THEN /\ ret' = Result("UpsertAttributes", id, attrs, u.err, Nil)
               /\ UNCHANGED <<pc, call>>
          ELSE /\ pc' = [pc EXCEPT ![p] = "UpdateOne"]
               /\ call' = [call EXCEPT ![p] =
                             [op |-> "UpsertAttributes", id |-> id, arg |-> attrs,
                              set |-> u.set, setOnInsert |-> u.setOnInsert,
                              now |-> clock, seen |-> written[id]]]
               /\ UNCHANGED ret
       /\ UNCHANGED <<db, clock, written, session>>

AddDeviceCall(p, dev) ==
    LET u == UpsertUpdate(AddDeviceAttrs(dev), clock)
    IN /\ pc[p] = "idle"
       /\ IF u.err # NoErr
          THEN /\ ret' = Result("AddDevice", dev.ID, dev, WrapStore(u.err), Nil)
               /\ UNCHANGED <<pc, call>>
          ELSE /\ pc' = [pc EXCEPT ![p] = "UpdateOne"]
               /\ call' = [call EXCEPT ![p] =
                             [op |-> "AddDevice", id |-> dev.ID, arg |-> dev,
                              set |-> u.set, setOnInsert |-> u.setOnInsert,
                              now |-> clock, seen |-> written[dev.ID]]]
               /\ UNCHANGED ret
       /\ UNCHANGED <<db, clock, written, session>>

UpdateOneReturn(p) ==
    LET c == call[p]
        r == UpdateOneUpsert(db, c.id, c.set, c.setOnInsert)
    IN /\ pc[p] = "UpdateOne"
       /\ db' = r.coll
       /\ ret' = Result(c.op, c.id, c.arg,
                        IF c.op = "AddDevice" THEN WrapStore(r.err) ELSE r.err, Nil)
       /\ written' = Stamped(written, c.id, r.err, c.now)
       /\ pc' = [pc EXCEPT ![p] = "idle"]
       /\ call' = [call EXCEPT ![p] = Idle]
       /\ UNCHANGED <<clock, session>>

ConcInputs == {<<"d1", <<>>>>, <<"d1", <<SnValue>>>>, <<"d1", <<SystemCreated>>>>}

ConcDevices == {Device("d1", <<>>, "g1")}

(* Concurrent callers of the merge engine. *)
NextConc ==
    \/ Tick
    \/ \E p \in Procs, in \in ConcInputs : UpsertAttributesCall(p, in[1], in[2])
    \/ \E p \in Procs, dev \in ConcDevices : AddDeviceCall(p, dev)
    \/ \E p \in Procs : UpdateOneReturn(p)
    \/ DeleteDevice("d1")

SpecConc == Init /\ [][NextConc]_vars

(* Concurrent callers that submit different fields of one attribute of one *)
(* device: its value, its description, another value.                      *)
MergeConcBatches == {<<SnValue>>, <<SnDescription>>, <<SnScoped>>}

NextMergeConc ==
    \/ Tick
    \/ \E p \in Procs, b \in MergeConcBatches : UpsertAttributesCall(p, "d1", b)
    \/ \E p \in Procs : UpdateOneReturn(p)

SpecMergeConc == Init /\ [][NextMergeConc]_vars

(* One caller at a time: the attribute merge engine. *)
Next ==
    \/ Tick
    \/ \E in \in MergeInputs : UpsertAttributes(in[1], in[2])
    \/ \E dev \in MergeDevices : AddDevice(dev)
    \/ \E id \in {"d1", "d2"} : DeleteDevice(id)

Spec == Init /\ [][Next]_vars

-----------------------------------------------------------------------------
(* GetDevices. *)

Eq == "Eq"

mongoOperator(co) == IF co = Eq THEN "$eq" ELSE ""

Filter(scope, name, value, valueFloat) ==
    [AttrScope |-> scope, AttrName |-> name, Value |-> value,
     ValueFloat |-> valueFloat, Operator |-> Eq]

Sort(scope, name, ascending) ==
    [AttrScope |-> scope, AttrName |-> name, Ascending |-> ascending]

Ptr(v) == [ptr |-> v]

ListQuery(skip, limit, filters, sort, hasGroup, groupName) ==
    [Skip |-> skip, Limit |-> limit, Filters |-> filters, Sort |-> sort,
     HasGroup |-> hasGroup, GroupName |-> groupName]

(* {field: {op: v}}; with an operator other than $eq the condition is an   *)
(* equality with the document {"": v}, which no scalar value satisfies.    *)
MatchOp(doc, field, op, v) == op = "$eq" /\ MatchEq(doc, field, v)

(* The element of queryFilters built for one filter. *)
MatchFilter(doc, filter) ==
    LET op == mongoOperator(filter.Operator)
        name == filter.AttrScope \o "-" \o filter.AttrName
        field == <<DbDevAttributes, name, DbDevAttributesValue>>
    IN IF filter.ValueFloat # Nil
       THEN \/ MatchOp(doc, field, op, Str(filter.Value))
            \/ MatchOp(doc, field, op, filter.ValueFloat)
       ELSE MatchOp(doc, field, op, Str(filter.Value))

(* The $match stage: groupFilter, groupExistenceFilter and findQuery. *)
MatchQuery(doc, q) ==
    /\ q.GroupName # "" => MatchEq(doc, DbDevAttributesGroupValue, Str(q.GroupName))
    /\ q.HasGroup # Nil => MatchExists(doc, DbDevAttributesGroup, q.HasGroup.ptr)
    /\ \A i \in 1..Len(q.Filters) : MatchFilter(doc, q.Filters[i])

MatchStage(coll, q) == SelectSeq(coll, LAMBDA doc : MatchQuery(doc, q))

(* sortQuery with the sort always ascending: Ascending is not looked at. *)
SortStage_Ascending(docs, sort) ==
    IF sort = Nil THEN {docs}
    ELSE
      LET name == sort.AttrScope \o "-" \o sort.AttrName
          sortField == <<DbDevAttributes, name, DbDevAttributesValue>>
          Before(a, b) == BsonLess(ValueAt(a, sortField), ValueAt(b, sortField))
          n == Len(docs)
          perms == {f \in [1..n -> 1..n] :
                      /\ \A i \in 1..n : \A j \in 1..n : i # j => f[i] # f[j]
                      /\ \A i \in 1..n : \A j \in 1..n :
                            i < j => ~Before(docs[f[j]], docs[f[i]])}
      IN {[i \in 1..n |-> docs[f[i]]] : f \in perms}

(* sortQuery: the orders a $sort on the field may produce (documents with  *)
(* equal keys come in any order); without a Sort the stage is {$skip: 0}.  *)
SortStage(docs, sort) ==
    IF sort = Nil THEN {docs}
    ELSE
      LET name == sort.AttrScope \o "-" \o sort.AttrName
          sortField == <<DbDevAttributes, name, DbDevAttributesValue>>
          Before(a, b) == IF sort.Ascending
                          THEN BsonLess(ValueAt(a, sortField), ValueAt(b, sortField))
                          ELSE BsonLess(ValueAt(b, sortField), ValueAt(a, sortField))
          n == Len(docs)
          perms == {f \in [1..n -> 1..n] :
                      /\ \A i \in 1..n : \A j \in 1..n : i # j => f[i] # f[j]
                      /\ \A i \in 1..n : \A j \in 1..n :
                            i < j => ~Before(docs[f[j]], docs[f[i]])}
      IN {[i \in 1..n |-> docs[f[i]]] : f \in perms}

SkipStage(docs, n) == SubSeq(docs, n + 1, Len(docs))

(* LimitStage with {$limit: q.Limit} for every limit: 0 keeps nothing. *)
LimitStage_Always(docs, limit) ==
    SubSeq(docs, 1, IF limit < Len(docs) THEN limit ELSE Len(docs))

(* limitQuery: {$limit: q.Limit} when q.Limit > 0, else {$skip: 0}. *)
LimitStage(docs, limit) ==
    IF limit > 0
    THEN SubSeq(docs, 1, IF limit < Len(docs) THEN limit ELSE Len(docs))
    ELSE docs

(* The totalCount facet {$count: "count"} and its projection with $ifNull. *)
CountFacet(docs) == IF Len(docs) = 0 THEN <<>> ELSE <<[count |-> Len(docs)]>>

(* The projection without $ifNull: no count document, no number. *)
TotalCount_NoIfNull(docs) ==
    IF CountFacet(docs) = <<>> THEN -1 ELSE CountFacet(docs)[1].count

TotalCount(docs) == IF CountFacet(docs) = <<>> THEN 0 ELSE CountFacet(docs)[1].count

ErrAggregate == "aggregate failed"
ErrDecode == "failed to fetch device list: decode failed"

(* Aggregate with the count taken from the page instead of from all the    *)
(* matches.                                                                *)
Aggregate_CountsPage(coll, q) ==
    IF q.Skip < 0 THEN {[err |-> ErrAggregate]}
    ELSE LET matched == MatchStage(coll, q)
         IN {[err |-> NoErr,
              results |-> LimitStage(SkipStage(sorted, q.Skip), q.Limit),
              totalCount |-> TotalCount(LimitStage(SkipStage(sorted, q.Skip), q.Limit))] :
                sorted \in SortStage(matched, q.Sort)}

(* Aggregate with the count facet fed from the collection instead of from  *)
(* the $match stage the page is fed from.                                  *)
Aggregate_CountsCollection(coll, q) ==
    IF q.Skip < 0 THEN {[err |-> ErrAggregate]}
    ELSE LET matched == MatchStage(coll, q)
         IN {[err |-> NoErr,
              results |-> LimitStage(SkipStage(sorted, q.Skip), q.Limit),
              totalCount |-> TotalCount(coll)] : sorted \in SortStage(matched, q.Sort)}

(* The documents the one Aggregate call of GetDevices may return; the      *)
(* server refuses a negative $skip.                                        *)
Aggregate(coll, q) ==
    IF q.Skip < 0 THEN {[err |-> ErrAggregate]}
    ELSE LET matched == MatchStage(coll, q)
         IN {[err |-> NoErr,
              results |-> LimitStage(SkipStage(sorted, q.Skip), q.Limit),
              totalCount |-> TotalCount(matched)] : sorted \in SortStage(matched, q.Sort)}

DeviceList(ids, totalCount) == [devices |-> ids, totalCount |-> totalCount]

(* What GetDevices returns for one outcome a of Aggregate.  fault is what  *)
(* goes wrong at the backend: "none", "aggregate" (the call fails),        *)
(* "next" (the cursor yields no document), "decode".  The error of         *)
(* Aggregate is not looked at, so a failed call leaves a nil cursor that   *)
(* is then used.                                                           *)
GetDevicesReturn(a, fault) ==
    IF a.err # NoErr \/ fault = "aggregate" THEN [err |-> Panic, val |-> Nil]
    ELSE IF fault = "next" THEN [err |-> NoErr, val |-> DeviceList(<<>>, 0)]
    ELSE IF fault = "decode" THEN [err |-> ErrDecode, val |-> DeviceList(<<>>, -1)]
    ELSE [err |-> NoErr,
          val |-> DeviceList([i \in 1..Len(a.results) |-> a.results[i]._id],
                             a.totalCount)]

GetDevices(q, fault) ==
    \E a \in Aggregate(db, q) :
        LET r == GetDevicesReturn(a, fault)
        IN /\ ret' = Result("GetDevices", NilDeviceID, [q |-> q, fault |-> fault],
                            r.err, r.val)
           /\ UNCHANGED <<db, clock, pc, call, written, session>>

-----------------------------------------------------------------------------
(* Group membership. *)

(* The entry UpdateDeviceGroup and UpdateDevicesGroup $set at the group    *)
(* key: model.DeviceAttribute{Scope, Name: DbDevGroup, Value: group}.      *)
GroupEntry(group) ==
    Put(EmptyM, DbDevAttributesGroup,
        MarshalAttr(Attr(AttrScopeSystem, DbDevGroup, Str(group), Nil)))

(* UpdateMany({_id: id, group value: groupName}, $unset group) and what    *)
(* UnsetDeviceGroup returns for its ModifiedCount.                         *)
UnsetDeviceGroupResult(coll, id, groupName) ==
    LET res == UpdateDocs(coll,
                          {i \in 1..Len(coll) :
                              /\ coll[i]._id = id
                              /\ MatchEq(coll[i], DbDevAttributesGroupValue, Str(groupName))},
                          [i \in 1..Len(coll) |->
                              ApplyUnset(coll[i].attributes, DbDevAttributesGroup[2])],
                          FALSE)
    IN [err |-> IF res.modifiedCount <= 0 THEN ErrDevNotFound ELSE NoErr,
        coll |-> res.coll]

(* The UpdateOne of UpdateDeviceGroup as an upsert: a device that is not   *)
(* stored is created with the group entry.                                 *)
UpdateDeviceGroupResult_Upsert(coll, devId, newGroup) ==
    IF devId \in Ids(coll)
    THEN LET res == UpdateDocs(coll, {i \in 1..Len(coll) : coll[i]._id = devId},
                               [i \in 1..Len(coll) |->
                                   ApplySet(coll[i].attributes, GroupEntry(newGroup))],
                               TRUE)
         IN [err |-> IF res.modifiedCount > 0 THEN NoErr ELSE ErrDevNotFound,
             coll |-> res.coll]
    ELSE [err |-> NoErr,
          coll |-> Append(coll, [_id |-> devId,
                                 attributes |-> ApplySet(EmptyM, GroupEntry(newGroup))])]

(* UpdateOne({_id: devId}, $set group entry) and what UpdateDeviceGroup    *)
(* returns for its ModifiedCount.                                          *)
UpdateDeviceGroupResult(coll, devId, newGroup) ==
    LET res == UpdateDocs(coll, {i \in 1..Len(coll) : coll[i]._id = devId},
                          [i \in 1..Len(coll) |->
                              ApplySet(coll[i].attributes, GroupEntry(newGroup))],
                          TRUE)
    IN [err |-> IF res.modifiedCount > 0 THEN NoErr ELSE ErrDevNotFound,
        coll |-> res.coll]

(* The bulk reassignment as an UpdateOne: the first match only. *)
UpdateDevicesGroupResult_One(coll, devIDs, group) ==
    LET res == UpdateDocs(coll, {i \in 1..Len(coll) : coll[i]._id \in devIDs},
                          [i \in 1..Len(coll) |->
                              ApplySet(coll[i].attributes, GroupEntry(group))],
                          TRUE)
    IN [err |-> NoErr, matchedCount |-> res.matchedCount,
        modifiedCount |-> res.modifiedCount, coll |-> res.coll]

(* UpdateMany({_id: {$in: devIDs}}, $set group entry); devIDs is the set   *)
(* of the ids in the slice.                                                *)
UpdateDevicesGroupResult(coll, devIDs, group) ==
    LET res == UpdateDocs(coll, {i \in 1..Len(coll) : coll[i]._id \in devIDs},
                          [i \in 1..Len(coll) |->
                              ApplySet(coll[i].attributes, GroupEntry(group))],
                          FALSE)
    IN [err |-> NoErr, matchedCount |-> res.matchedCount,
        modifiedCount |-> res.modifiedCount, coll |-> res.coll]

(* The bulk unset with the group name left out of the filter. *)
UnsetDevicesGroupResult_AnyGroup(coll, deviceIDs, group) ==
    LET res == UpdateDocs(coll, {i \in 1..Len(coll) : coll[i]._id \in deviceIDs},
                          [i \in 1..Len(coll) |->
                              ApplyUnset(coll[i].attributes, DbDevAttributesGroup[2])],
                          FALSE)
    IN [err |-> NoErr, modifiedCount |-> res.modifiedCount, coll |-> res.coll]

(* UpdateMany({_id: {$in: deviceIDs}, group value: group}, $unset group).  *)
UnsetDevicesGroupResult(coll, deviceIDs, group) ==
    LET res == UpdateDocs(coll,
                          {i \in 1..Len(coll) :
                              /\ coll[i]._id \in deviceIDs
                              /\ MatchEq(coll[i], DbDevAttributesGroupValue, Str(group))},
                          [i \in 1..Len(coll) |->
                              ApplyUnset(coll[i].attributes, DbDevAttributesGroup[2])],
                          FALSE)
    IN [err |-> NoErr, modifiedCount |-> res.modifiedCount, coll |-> res.coll]

(* UnsetDeviceGroup with the group name left out of the filter. *)
UnsetDeviceGroup_AnyGroup(id, groupName) ==
    LET Match(doc) == doc._id = id
        Update(attributes) == ApplyUnset(attributes, DbDevAttributesGroup[2])
        res == UpdateDocs(db, {i \in 1..Len(db) : Match(db[i])},
                          [i \in 1..Len(db) |-> Update(db[i].attributes)], FALSE)
    IN /\ db' = res.coll
       /\ ret' = Result("UnsetDeviceGroup", id, groupName,
                        IF res.modifiedCount <= 0 THEN ErrDevNotFound ELSE NoErr, Nil)
       /\ UNCHANGED <<clock, pc, call, written, session>>

UnsetDeviceGroup(id, groupName) ==
    LET r == UnsetDeviceGroupResult(db, id, groupName)
    IN /\ db' = r.coll
       /\ ret' = Result("UnsetDeviceGroup", id, groupName, r.err, Nil)
       /\ UNCHANGED <<clock, pc, call, written, session>>

UpdateDeviceGroup(devId, newGroup) ==
    LET r == UpdateDeviceGroupResult(db, devId, newGroup)
    IN /\ db' = r.coll
       /\ ret' = Result("UpdateDeviceGroup", devId, newGroup, r.err, Nil)
       /\ UNCHANGED <<clock, pc, call, written, session>>

UpdateDevicesGroup(devIDs, group) ==
    LET r == UpdateDevicesGroupResult(db, devIDs, group)
    IN /\ db' = r.coll
       /\ ret' = Result("UpdateDevicesGroup", NilDeviceID,
                        [ids |-> devIDs, group |-> group], r.err,
                        [matched |-> r.matchedCount, modified |-> r.modifiedCount])
       /\ UNCHANGED <<clock, pc, call, written, session>>

UnsetDevicesGroup(deviceIDs, group) ==
    LET r == UnsetDevicesGroupResult(db, deviceIDs, group)
    IN /\ db' = r.coll
       /\ ret' = Result("UnsetDevicesGroup", NilDeviceID,
                        [ids |-> deviceIDs, group |-> group], r.err,
                        [modified |-> r.modifiedCount])
       /\ UNCHANGED <<clock, pc, call, written, session>>

-----------------------------------------------------------------------------
(* Listing devices while the store is written. *)

MaxSkip == 2
MaxLimit == 2

Pagings ==
    {<<sk, li>> : sk \in 0..MaxSkip, li \in 0..MaxLimit} \cup {<<-1, 0>>, <<0, -1>>}

SnFilter == Filter(AttrScopeInventory, "sn", "X", Nil)

Queries ==
    {ListQuery(pg[1], pg[2], sel[1], Nil, Nil, sel[2]) :
        pg \in Pagings, sel \in {<<<<SnFilter>>, "">>, <<<<>>, "g1">>}}
    \cup {ListQuery(pg[1], pg[2], fs, Nil, hg, gn) :
             pg \in {<<0, 0>>, <<1, 1>>}, fs \in {<<>>, <<SnFilter>>},
             hg \in {Nil, Ptr(TRUE), Ptr(FALSE)}, gn \in {"", "g1"}}
    \cup {ListQuery(pg[1], pg[2], <<>>, Sort(AttrScopeInventory, "sn", TRUE), Nil, "") :
             pg \in Pagings}
    \cup {ListQuery(0, 0, <<>>, Sort(AttrScopeInventory, "sn", FALSE), Nil, "")}

QueryInputs ==
    {<<q, "none">> : q \in Queries}
    \cup {<<ListQuery(0, 0, <<>>, Nil, Nil, ""), f>> : f \in {"aggregate", "next", "decode"}}

QueryDevices ==
    {Device("d1", <<SnValue>>, ""), Device("d2", <<>>, "g1"), Device("d3", <<SnValue>>, "g1")}

NextQuery ==
    \/ \E dev \in QueryDevices : AddDevice(dev)
    \/ DeleteDevice("d1")
    \/ UnsetDeviceGroup("d3", "g1")
    \/ UpdateDeviceGroup("d1", "g1")
    \/ \E in \in QueryInputs : GetDevices(in[1], in[2])

SpecQuery == Init /\ [][NextQuery]_vars

(* Assigning and clearing groups. *)
GroupDevices == {Device("d1", <<>>, ""), Device("d2", <<>>, "g1")}

NextGroup ==
    \/ \E dev \in GroupDevices : AddDevice(dev)
    \/ \E id \in {"d1", "d2"} : DeleteDevice(id)
    \/ \E id \in {"d1", "d2"}, g \in Groups \cup {""} : UnsetDeviceGroup(id, g)
    \/ \E id \in {"d1", "d2"}, g \in Groups \cup {""} : UpdateDeviceGroup(id, g)
    \/ UpsertAttributes("d1", <<SnValue>>)

SpecGroup == Init /\ [][NextGroup]_vars

(* The single-device group writes and the bulk reassignment as their       *)
(* callers interleave: the first step is the call, the second the one      *)
(* UpdateOne / UpdateMany it issues and its return.  last is history only: *)
(* the group the latest reassignment of the same device wrote while the    *)
(* unset was pending (Nil when there was none); no handler reads it.       *)
UnsetDeviceGroupCall(p, id, groupName) ==
    /\ pc[p] = "idle"
    /\ pc' = [pc EXCEPT ![p] = "UnsetDeviceGroup"]
    /\ call' = [call EXCEPT ![p] =
                  [op |-> "UnsetDeviceGroup", id |-> id, arg |-> groupName, last |-> Nil]]
    /\ UNCHANGED <<db, clock, ret, written, session>>

UpdateDeviceGroupCall(p, devId, newGroup) ==
    /\ pc[p] = "idle"
    /\ pc' = [pc EXCEPT ![p] = "UpdateDeviceGroup"]
    /\ call' = [call EXCEPT ![p] =
                  [op |-> "UpdateDeviceGroup", id |-> devId, arg |-> newGroup]]
    /\ UNCHANGED <<db, clock, ret, written, session>>

UpdateDevicesGroupCall(p, devIDs, group) ==
    /\ pc[p] = "idle"
    /\ pc' = [pc EXCEPT ![p] = "UpdateDevicesGroup"]
    /\ call' = [call EXCEPT ![p] =
                  [op |-> "UpdateDevicesGroup", id |-> NilDeviceID,
                   arg |-> [ids |-> devIDs, group |-> group]]]
    /\ UNCHANGED <<db, clock, ret, written, session>>

(* The pending calls after p has returned from reassigning the devices ids *)
(* of coll to group.                                                       *)
Reassigned(p, coll, ids, group) ==
    [q \in Procs |->
        IF q = p THEN Idle
        ELSE IF call[q].op = "UnsetDeviceGroup" /\ call[q].id \in ids \cap Ids(coll)
        THEN [call[q] EXCEPT !.last = Str(group)]
        ELSE call[q]]

(* The unset as a clear that does not look at the current group. *)
UnsetDeviceGroupReturn_Unconditional(p) ==
    LET c == call[p]
        res == UpdateDocs(db, {i \in 1..Len(db) : db[i]._id = c.id},
                          [i \in 1..Len(db) |->
                              ApplyUnset(db[i].attributes, DbDevAttributesGroup[2])],
                          FALSE)
    IN /\ pc[p] = "UnsetDeviceGroup"
       /\ db' = res.coll
       /\ ret' = Result(c.op, c.id, c.arg,
                        IF res.modifiedCount <= 0 THEN ErrDevNotFound ELSE NoErr, c.last)
       /\ pc' = [pc EXCEPT ![p] = "idle"]
       /\ call' = [call EXCEPT ![p] = Idle]
       /\ UNCHANGED <<clock, written, session>>

UnsetDeviceGroupReturn(p) ==
    LET c == call[p]
        r == UnsetDeviceGroupResult(db, c.id, c.arg)
    IN /\ pc[p] = "UnsetDeviceGroup"
       /\ db' = r.coll
       /\ ret' = Result(c.op, c.id, c.arg, r.err, c.last)
       /\ pc' = [pc EXCEPT ![p] = "idle"]
       /\ call' = [call EXCEPT ![p] = Idle]
       /\ UNCHANGED <<clock, written, session>>

UpdateDeviceGroupReturn(p) ==
    LET c == call[p]
        r == UpdateDeviceGroupResult(db, c.id, c.arg)
    IN /\ pc[p] = "UpdateDeviceGroup"
       /\ db' = r.coll
       /\ ret' = Result(c.op, c.id, c.arg, r.err, Nil)
       /\ pc' = [pc EXCEPT ![p] = "idle"]
       /\ call' = Reassigned(p, db, {c.id}, c.arg)
       /\ UNCHANGED <<clock, written, session>>

UpdateDevicesGroupReturn(p) ==
    LET c == call[p]
        r == UpdateDevicesGroupResult(db, c.arg.ids, c.arg.group)
    IN /\ pc[p] = "UpdateDevicesGroup"
       /\ db' = r.coll
       /\ ret' = Result(c.op, c.id, c.arg, r.err,
                        [matched |-> r.matchedCount, modified |-> r.modifiedCount])
       /\ pc' = [pc EXCEPT ![p] = "idle"]
       /\ call' = Reassigned(p, db, c.arg.ids, c.arg.group)
       /\ UNCHANGED <<clock, written, session>>

GroupConcDevices == {Device("d1", <<>>, "g1"), Device("d2", <<>>, "")}

NextGroupConc ==
    \/ \E dev \in GroupConcDevices : AddDevice(dev)
    \/ \E p \in Procs, g \in Groups : UnsetDeviceGroupCall(p, "d1", g)
    \/ \E p \in Procs, h \in Groups : UpdateDeviceGroupCall(p, "d1", h)
    \/ \E p \in Procs, h \in Groups : UpdateDevicesGroupCall(p, {"d1", "d2"}, h)
    \/ \E p \in Procs : UnsetDeviceGroupReturn(p)
    \/ \E p \in Procs : UpdateDeviceGroupReturn(p)
    \/ \E p \in Procs : UpdateDevicesGroupReturn(p)

SpecGroupConc == Init /\ [][NextGroupConc]_vars

(* Selecting devices by group presence and by attribute value: whole       *)
(* listings (no skip, no limit, no sort) of a store written by AddDevice,  *)
(* UpsertAttributes and the group operations.  The attributes are a string *)
(* and a number 4.0 under one name, its string form "4.0", a group entry   *)
(* that has a description and no value, and Hw, whose key is that of       *)
(* (inventory, sn-hw).                                                     *)
NumFloat4 == Attr("", "n", Num(4), Nil)
NumString4 == Attr("", "n", Str("4.0"), Nil)
GroupDescription == Attr(AttrScopeSystem, AttrNameGroup, Nil, Str("d"))

SelectBatches == {<<SnValue>>, <<NumFloat4>>, <<NumString4>>, <<Hw>>, <<GroupDescription>>}

SelectFilters ==
    { <<Filter(AttrScopeInventory, "sn", "X", Nil)>>,
      <<Filter(AttrScopeInventory, "n", "4.0", Nil)>>,
      <<Filter(AttrScopeInventory, "n", "4.0", Num(4))>>,
      <<Filter(AttrScopeInventory, "sn", "X", Nil), Filter(AttrScopeInventory, "n", "4.0", Num(4))>>,
      <<Filter(AttrScopeInventory, "sn-hw", "Y", Nil)>>,
      <<Filter("", "sn", "X", Nil)>> }

SelectQueries ==
    {ListQuery(0, 0, <<>>, Nil, hg, "") : hg \in {Nil, Ptr(TRUE), Ptr(FALSE)}}
    \cup {ListQuery(0, 0, fs, Nil, Nil, "") : fs \in SelectFilters}

SelectDevices == {Device("d1", <<>>, ""), Device("d2", <<>>, "g1")}

NextSelect ==
    \/ \E dev \in SelectDevices : AddDevice(dev)
    \/ \E b \in SelectBatches : UpsertAttributes("d1", b)
    \/ \E g \in {"g1", ""} : UpdateDeviceGroup("d1", g)
    \/ UnsetDeviceGroup("d2", "g1")
    \/ UpdateDevicesGroup({"d1", "d2"}, "g1")
    \/ UnsetDevicesGroup({"d1", "d2"}, "g1")
    \/ \E q \in SelectQueries : GetDevices(q, "none")

SpecSelect == Init /\ [][NextSelect]_vars

(* GetDevicesByGroup: FindOne({group value: group}), whose Decode fails    *)
(* with no document when nothing matches, then GetDevices with GroupName   *)
(* and HasGroup = (group # ""), of whose devices the ids are returned.     *)
WrapGroupList(err) ==
    IF err = NoErr \/ err = Panic THEN err
    ELSE "failed to get device list for group: " \o err

GetDevicesByGroupResult(coll, group, skip, limit) ==
    IF \A i \in 1..Len(coll) : ~MatchEq(coll[i], DbDevAttributesGroupValue, Str(group))
    THEN {[err |-> ErrGroupNotFound, val |-> DeviceList(<<>>, -1)]}
    ELSE {[err |-> WrapGroupList(GetDevicesReturn(a, "none").err),
           val |-> IF GetDevicesReturn(a, "none").err = NoErr
                   THEN GetDevicesReturn(a, "none").val
                   ELSE DeviceList(<<>>, -1)] :
             a \in Aggregate(coll, ListQuery(skip, limit, <<>>, Nil, Ptr(group # ""), group))}

GetDevicesByGroup(group, skip, limit) ==
    \E r \in GetDevicesByGroupResult(db, group, skip, limit) :
        /\ ret' = Result("GetDevicesByGroup", NilDeviceID,
                         [group |-> group, skip |-> skip, limit |-> limit], r.err, r.val)
        /\ UNCHANGED <<db, clock, pc, call, written, session>>

(* ListGroups: Distinct(group value, {group value: {$exists: true}}), each *)
(* result asserted to be a string; the distinct values come in any order.  *)
ListGroupsResult(coll) ==
    LET values == {ValueAt(coll[i], DbDevAttributesGroupValue) : i \in 1..Len(coll)}
                     \ {Missing}
        n == Cardinality(values)
    IN IF \E v \in values : DOMAIN v # {"str"}
       THEN {[err |-> Panic, val |-> Nil]}
       ELSE {[err |-> NoErr, val |-> [i \in 1..n |-> results[i].str]] :
               results \in {r \in [1..n -> values] :
                               \A i \in 1..n : \A j \in 1..n : i # j => r[i] # r[j]}}

ListGroups ==
    \E r \in ListGroupsResult(db) :
        /\ ret' = Result("ListGroups", NilDeviceID, Nil, r.err, r.val)
        /\ UNCHANGED <<db, clock, pc, call, written, session>>

(* Listing the groups and the members of a group of a store of three       *)
(* devices, the first without a group, whose groups are set and cleared.   *)
GroupPagings == {<<0, 0>>, <<0, 1>>, <<1, 1>>, <<2, 0>>}

NextByGroup ==
    \/ \E dev \in QueryDevices : AddDevice(dev)
    \/ DeleteDevice("d2")
    \/ \E g \in Groups \cup {""} : UpdateDeviceGroup("d1", g)
    \/ UnsetDeviceGroup("d3", "g1")
    \/ \E g \in Groups \cup {""}, pg \in GroupPagings : GetDevicesByGroup(g, pg[1], pg[2])
    \/ ListGroups

SpecByGroup == Init /\ [][NextByGroup]_vars

(* The bulk group writes: id sets that are empty, name devices that exist  *)
(* and name d3, which never does.                                          *)
BulkIds == {{}, {"d1"}, {"d3"}, {"d1", "d3"}, {"d1", "d2", "d3"}}

BulkDevices == {Device("d1", <<>>, ""), Device("d2", <<>>, "g1")}

NextBulk ==
    \/ \E dev \in BulkDevices : AddDevice(dev)
    \/ DeleteDevice("d1")
    \/ UpsertAttributes("d1", <<SnValue>>)
    \/ \E ids \in BulkIds, g \in Groups : UpdateDevicesGroup(ids, g)
    \/ \E ids \in BulkIds, g \in Groups : UnsetDevicesGroup(ids, g)

SpecBulk == Init /\ [][NextBulk]_vars

-----------------------------------------------------------------------------
(* Reading the store. *)

(* The attribute sub-documents of device id. *)
Entries(coll, id) ==
    IF id \in Ids(coll)
    THEN {Doc(coll, id).attributes[k] : k \in DOMAIN Doc(coll, id).attributes}
    ELSE {}

EntriesAt(coll, id, scope, name) ==
    {e \in Entries(coll, id) : e.scope = scope /\ e.name = name}

Field(e, f) == IF f \in DOMAIN e THEN e[f] ELSE Nil

(* The scope an attribute is submitted for: the inventory scope when the   *)
(* caller names none.                                                      *)
SubmittedScope(a) == IF a.Scope = "" THEN "inventory" ELSE a.Scope

Submits(attrs, scope, name) ==
    \E i \in 1..Len(attrs) : SubmittedScope(attrs[i]) = scope /\ attrs[i].Name = name

SubmitsValue(attrs, scope, name) ==
    \E i \in 1..Len(attrs) :
        SubmittedScope(attrs[i]) = scope /\ attrs[i].Name = name /\ attrs[i].Value # Nil

SubmitsDescription(attrs, scope, name) ==
    \E i \in 1..Len(attrs) :
        SubmittedScope(attrs[i]) = scope /\ attrs[i].Name = name /\ attrs[i].Description # Nil

HasEmptyName(attrs) == \E i \in 1..Len(attrs) : attrs[i].Name = ""

(* The step is a call of op returning: ret' is what it was given and what  *)
(* it returned.  (A call that leaves both the store and ret as they were   *)
(* is a stuttering step.)                                                  *)
Returns(op) == ret'.op = op /\ <<db, ret, pc>>' # <<db, ret, pc>>

(* The step is the UpdateOne of caller p's pending call returning. *)
WriteReturns(p) == pc[p] = "UpdateOne" /\ pc'[p] = "idle"

Stamp(name, t) == [scope |-> "system", name |-> name, value |-> Time(t)]

(* The devices a list query asks for: those that satisfy every equality   *)
(* filter, the group name and the has-group constraint.                    *)
SatisfiesFilter(coll, id, f) ==
    \E e \in EntriesAt(coll, id, f.AttrScope, f.AttrName) :
        \/ Field(e, "value") = Str(f.Value)
        \/ f.ValueFloat # Nil /\ Field(e, "value") = f.ValueFloat

GroupOf(coll, id) == {Field(e, "value") : e \in EntriesAt(coll, id, "system", "group")}

Matching(coll, q) ==
    {id \in Ids(coll) :
        /\ \A i \in 1..Len(q.Filters) : SatisfiesFilter(coll, id, q.Filters[i])
        /\ q.GroupName # "" => GroupOf(coll, id) = {Str(q.GroupName)}
        /\ q.HasGroup # Nil => (GroupOf(coll, id) # {}) = q.HasGroup.ptr}

(* The ids of a collection in its natural order and the part of a sequence *)
(* left by skip and limit.                                                 *)
IdSeq(coll) == [i \in 1..Len(coll) |-> coll[i]._id]

Min(a, b) == IF a < b THEN a ELSE b

Max(a, b) == IF a > b THEN a ELSE b

Slice(seq, skip, limit) ==
    LET rest == SubSeq(seq, skip + 1, Len(seq))
    IN IF limit > 0 THEN SubSeq(rest, 1, Min(limit, Len(rest))) ELSE rest

(* The devices that hold group g. *)
Holds(coll, g) == {id \in Ids(coll) : GroupOf(coll, id) = {Str(g)}}

(* A GetDevices call against a working backend has returned. *)
Listed == Returns("GetDevices") /\ ret'.arg.fault = "none"

-----------------------------------------------------------------------------
(* C1: the 'created' timestamp of a device is written by the call that     *)
(* creates its record, with that call's time, and every later call that    *)
(* leaves the record in place leaves 'created' as it was.                  *)
C1_CreatedFirstWriteWins ==
    [][\A id \in DeviceIDs :
         /\ (id \in Ids(db) /\ id \in Ids(db'))
               => EntriesAt(db', id, "system", "created")
                    = EntriesAt(db, id, "system", "created")
         /\ (id \notin Ids(db) /\ id \in Ids(db'))
               => \E p \in Procs :
                     /\ WriteReturns(p)
                     /\ call[p].id = id
                     /\ EntriesAt(db', id, "system", "created")
                          = {Stamp("created", call[p].now)}]_vars

(* A call on an existing device has returned at a time later than the      *)
(* device's creation and 'created' still holds the earlier time.           *)
C1_Witness ==
    /\ ret.op \in {"UpsertAttributes", "AddDevice"}
    /\ ret.err = NoErr
    /\ ret.id \in Ids(db)
    /\ \E t \in 1..MaxClock :
         /\ EntriesAt(db, ret.id, "system", "created") = {Stamp("created", t)}
         /\ t < written[ret.id]
         /\ \E u \in EntriesAt(db, ret.id, "system", "updated") : t < u.value.time

-----------------------------------------------------------------------------
(* C2: UpsertAttributes with a batch in which some attribute has an empty  *)
(* name returns the missing-attribute-name error and changes nothing in    *)
(* the store: no record is created and no attribute, the 'updated'         *)
(* timestamp included, is written, also when valid attributes come first.  *)
C2_InvalidBatchRejected ==
    [][(Returns("UpsertAttributes") /\ HasEmptyName(ret'.arg))
          => (ret'.err = ErrNoAttrName /\ db' = db)]_vars

(* A batch whose first attribute is valid and whose second has no name was *)
(* refused for an existing device at a time later than its last update.    *)
C2_Witness ==
    /\ ret.op = "UpsertAttributes"
    /\ ret.arg = <<SnValue, NoName>>
    /\ ret.err = ErrNoAttrName
    /\ ret.id \in Ids(db)
    /\ \A e \in EntriesAt(db, ret.id, "system", "updated") : e.value.time < clock

(* C3: the merge is field-additive.  When a successful UpsertAttributes    *)
(* submits a (scope, name) the device already stores, the stored           *)
(* description is unchanged unless the batch carries a description for it, *)
(* the stored value is unchanged unless the batch carries a value for it,  *)
(* and there is still one entry for the pair; a description-only           *)
(* submission of "sn" to a device whose "sn" has value X leaves the one    *)
(* entry with value X and description d.                                   *)
C3_FieldAdditive ==
    [][(Returns("UpsertAttributes") /\ ret'.err = NoErr /\ ret'.id \in Ids(db))
          => /\ \A e \in Entries(db, ret'.id) :
                  Submits(ret'.arg, e.scope, e.name)
                     => /\ Cardinality(EntriesAt(db', ret'.id, e.scope, e.name)) = 1
                        /\ \A e2 \in EntriesAt(db', ret'.id, e.scope, e.name) :
                             /\ ~SubmitsDescription(ret'.arg, e.scope, e.name)
                                   => Field(e2, "description") = Field(e, "description")
                             /\ ~SubmitsValue(ret'.arg, e.scope, e.name)
                                   => Field(e2, "value") = Field(e, "value")
             /\ (/\ ret'.arg = <<SnDescription>>
                 /\ \E e \in EntriesAt(db, ret'.id, "inventory", "sn") :
                       Field(e, "value") = Str("X"))
                   => EntriesAt(db', ret'.id, "inventory", "sn")
                        = {[scope |-> "inventory", name |-> "sn",
                            value |-> Str("X"), description |-> Str("d")]}]_vars

(* The last call submitted a description only and the entry holds the      *)
(* value of an earlier call next to it.                                    *)
C3_Witness ==
    /\ ret.op = "UpsertAttributes"
    /\ ret.err = NoErr
    /\ ret.arg = <<SnDescription>>
    /\ EntriesAt(db, ret.id, "inventory", "sn")
         = {[scope |-> "inventory", name |-> "sn",
             value |-> Str("X"), description |-> Str("d")]}

(* C4: a successful UpsertAttributes(id, attrs) leaves device id existing, *)
(* every attribute of it whose (scope, name) is not in attrs, other than   *)
(* the 'updated' timestamp, exactly as before, and every other device      *)
(* unchanged.                                                              *)
C4_UpsertFrame ==
    [][(Returns("UpsertAttributes") /\ ret'.err = NoErr)
          => /\ Ids(db') = Ids(db) \cup {ret'.id}
             /\ \A e \in Entries(db, ret'.id) :
                  (~Submits(ret'.arg, e.scope, e.name)
                     /\ ~(e.scope = "system" /\ e.name = "updated"))
                     => e \in Entries(db', ret'.id)
             /\ \A other \in Ids(db) \ {ret'.id} : Doc(db', other) = Doc(db, other)]_vars

(* C5: in every reachable state every device has an 'updated' timestamp    *)
(* that is not earlier than its 'created' timestamp, whatever the          *)
(* interleaving of concurrent UpsertAttributes calls on it.                *)
C5_UpdatedNotBeforeCreated ==
    \A id \in Ids(db) :
        \A c \in EntriesAt(db, id, "system", "created") :
            /\ EntriesAt(db, id, "system", "updated") # {}
            /\ \A u \in EntriesAt(db, id, "system", "updated") :
                  u.value.time >= c.value.time

(* C6: a successful UpsertAttributes, also one with an empty list, sets    *)
(* the device's 'updated' timestamp to the time the call read, and that    *)
(* time is not earlier than any 'updated' stamped on the device by a call  *)
(* that had returned when this one started.                                *)
C6_UpdatedStamped ==
    [][\A p \in Procs :
         (WriteReturns(p) /\ call[p].op = "UpsertAttributes" /\ ret'.err = NoErr)
            => /\ EntriesAt(db', call[p].id, "system", "updated")
                    = {Stamp("updated", call[p].now)}
               /\ \A u \in EntriesAt(db', call[p].id, "system", "updated") :
                    u.value.time >= call[p].seen]_vars

(* A call with an empty attribute list has returned, after an earlier call *)
(* on the same device had returned, and 'updated' holds the later time.    *)
C6_Witness ==
    /\ ret.op = "UpsertAttributes"
    /\ ret.arg = <<>>
    /\ ret.err = NoErr
    /\ \E t \in 2..MaxClock :
         /\ EntriesAt(db, ret.id, "system", "updated") = {Stamp("updated", t)}
         /\ \E c \in EntriesAt(db, ret.id, "system", "created") : c.value.time < t

(* C7: the totalCount GetDevices returns is the number of devices that     *)
(* satisfy all equality filters, the group name and the has-group          *)
(* constraint, a number in which skip and limit play no part; the page has *)
(* at most limit devices when limit > 0 and never more than totalCount.    *)
C7_TotalCount ==
    [][(Listed /\ ret'.err = NoErr)
          => /\ ret'.val.totalCount = Cardinality(Matching(db, ret'.arg.q))
             /\ ret'.arg.q.Limit > 0 => Len(ret'.val.devices) <= ret'.arg.q.Limit
             /\ ret'.val.totalCount >= Len(ret'.val.devices)]_vars

(* A filtered query over three devices, one of which does not match, has   *)
(* returned a page shorter than its count.                                 *)
C7_Witness ==
    /\ ret.op = "GetDevices"
    /\ ret.err = NoErr
    /\ ret.arg.fault = "none"
    /\ ret.arg.q.Filters = <<SnFilter>>
    /\ ret.arg.q.Skip = 1
    /\ ret.arg.q.Limit = 1
    /\ Len(db) = 3
    /\ ret.val.totalCount = 2
    /\ Len(ret.val.devices) = 1

(* C8: the page is the matched sequence without its first skip devices,    *)
(* cut to limit devices when limit > 0 and whole when limit <= 0, so its   *)
(* length is max(0, totalCount - skip), capped by a positive limit; a skip *)
(* past the last match gives an empty page and no error.                   *)
C8_SkipThenLimit ==
    [][(Listed /\ ret'.arg.q.Skip >= 0)
          => /\ ret'.err = NoErr
             /\ Len(ret'.val.devices)
                  = IF ret'.arg.q.Limit <= 0
                    THEN Max(0, ret'.val.totalCount - ret'.arg.q.Skip)
                    ELSE Min(ret'.arg.q.Limit,
                             Max(0, ret'.val.totalCount - ret'.arg.q.Skip))
             /\ ret'.arg.q.Sort = Nil
                  => ret'.val.devices
                       = Slice(SelectSeq(IdSeq(db),
                                         LAMBDA id : id \in Matching(db, ret'.arg.q)),
                               ret'.arg.q.Skip, ret'.arg.q.Limit)]_vars

(* A query whose skip is past the last of its matches has returned an      *)
(* empty page without error.                                               *)
C8_Witness ==
    /\ ret.op = "GetDevices"
    /\ ret.err = NoErr
    /\ ret.arg.fault = "none"
    /\ ret.val.totalCount > 0
    /\ ret.arg.q.Skip > ret.val.totalCount
    /\ ret.arg.q.Limit = 0
    /\ ret.val.devices = <<>>

C10_CompareAndClear ==
    [][Returns("UnsetDeviceGroup")
          => IF ret'.id \in Ids(db) /\ GroupOf(db, ret'.id) = {Str(ret'.arg)}
             THEN /\ ret'.err = NoErr
                  /\ ret'.id \in Ids(db')
                  /\ EntriesAt(db', ret'.id, "system", "group") = {}
             ELSE /\ ret'.err = ErrDevNotFound
                  /\ db' = db]_vars

(* An unset naming g1 was refused for a device that holds g2, which it     *)
(* still holds.                                                            *)
C10_Witness ==
    /\ ret.op = "UnsetDeviceGroup"
    /\ ret.arg = "g1"
    /\ ret.err = ErrDevNotFound
    /\ ret.id \in Ids(db)
    /\ GroupOf(db, ret.id) = {Str("g2")}

(* C11: an UnsetDeviceGroup(id, g) that overlaps a reassignment of device   *)
(* id to a group h # g returns success only when the value it removed was  *)
(* g, and never removes h: when the device holds h as the unset is applied *)
(* (the reassignment was applied first), the unset returns DeviceNotFound  *)
(* and the device still holds h.                                           *)
C11_UnsetNeverClearsOther ==
    [][\A p \in Procs :
          (pc[p] = "UnsetDeviceGroup" /\ pc'[p] = "idle")
             => /\ ret'.err = NoErr
                    => /\ GroupOf(db, call[p].id) = {Str(call[p].arg)}
                       /\ GroupOf(db', call[p].id) = {}
                /\ \A h \in Groups \ {call[p].arg} :
                      GroupOf(db, call[p].id) = {Str(h)}
                         => /\ ret'.err = ErrDevNotFound
                            /\ GroupOf(db', call[p].id) = {Str(h)}]_vars

(* An unset of g1 was called, a reassignment to g2 was applied while it    *)
(* was pending, and the unset then returned DeviceNotFound with the device *)
(* holding g2.                                                             *)
C11_Witness ==
    /\ ret.op = "UnsetDeviceGroup"
    /\ ret.arg = "g1"
    /\ ret.val = Str("g2")
    /\ ret.err = ErrDevNotFound
    /\ GroupOf(db, ret.id) = {Str("g2")}

(* C12: UpdateDeviceGroup(id, g) on an existing device sets its group to g *)
(* and returns no error whatever the group was (none, another, already g); *)
(* it returns DeviceNotFound exactly when no device has that id, and then  *)
(* creates no device and changes nothing.                                  *)
C12_UpdateGroupUnconditional ==
    [][Returns("UpdateDeviceGroup")
          => IF ret'.id \in Ids(db)
             THEN /\ ret'.err = NoErr
                  /\ GroupOf(db', ret'.id) = {Str(ret'.arg)}
             ELSE /\ ret'.err = ErrDevNotFound
                  /\ db' = db]_vars

(* C13: GetDevices with hasGroup = true returns exactly the devices that   *)
(* have a group attribute, with hasGroup = false exactly the others (every *)
(* device is in one of the two results and in one only), and with hasGroup *)
(* unset every device, in every state reached through AddDevice,           *)
(* UpsertAttributes and the group set and unset operations.                *)
C13_HasGroupPartition ==
    [][(Listed /\ ret'.arg.q.Filters = <<>> /\ ret'.arg.q.GroupName = ""
          /\ ret'.arg.q.Skip = 0 /\ ret'.arg.q.Limit = 0)
          => LET grouped ==
                     {id \in Ids(db) :
                         EntriesAt(db, id, AttrScopeSystem, AttrNameGroup) # {}}
                 expected ==
                     IF ret'.arg.q.HasGroup = Nil THEN Ids(db)
                     ELSE IF ret'.arg.q.HasGroup.ptr THEN grouped
                     ELSE Ids(db) \ grouped
                 page == ret'.val.devices
             IN /\ ret'.err = NoErr
                /\ {page[i] : i \in 1..Len(page)} = expected
                /\ Len(page) = Cardinality(expected)]_vars

(* A hasGroup = true listing of two devices has returned the one whose     *)
(* group attribute is there without a value, and not the device whose      *)
(* group was unset.                                                        *)
C13_Witness ==
    /\ ret.op = "GetDevices"
    /\ ret.err = NoErr
    /\ ret.arg.q.HasGroup = Ptr(TRUE)
    /\ ret.arg.q.Filters = <<>>
    /\ Ids(db) = {"d1", "d2"}
    /\ ret.val.devices = <<"d1">>
    /\ GroupOf(db, "d1") = {Nil}
    /\ GroupOf(db, "d2") = {}

(* C14: GetDevices with equality filters returns a device if and only if,  *)
(* for every filter of the list, the value stored at the filter's (scope,  *)
(* name) equals the filter's string value or, when the filter carries a    *)
(* numeric form, that number; a stored number 4.0 is matched by a filter   *)
(* carrying "4.0" and 4.0, and a filter without numeric form compares the  *)
(* string only.                                                            *)
C14_FiltersSelect ==
    [][(Listed /\ ret'.arg.q.Filters # <<>> /\ ret'.arg.q.HasGroup = Nil
          /\ ret'.arg.q.GroupName = "" /\ ret'.arg.q.Skip = 0 /\ ret'.arg.q.Limit = 0)
          => LET expected ==
                     {id \in Ids(db) :
                         \A i \in 1..Len(ret'.arg.q.Filters) :
                             SatisfiesFilter(db, id, ret'.arg.q.Filters[i])}
                 page == ret'.val.devices
             IN /\ ret'.err = NoErr
                /\ {page[i] : i \in 1..Len(page)} = expected
                /\ Len(page) = Cardinality(expected)]_vars

(* C15: GetDevicesByGroup(g, skip, limit) returns GroupNotFound if and     *)
(* only if no device holds group g; otherwise it returns the ids of the    *)
(* skip/limit page of the devices holding g and totalCount = the number of *)
(* devices holding g.                                                      *)
C15_GroupPage ==
    [][Returns("GetDevicesByGroup")
          => LET members == Holds(db, ret'.arg.group)
             IN IF members = {}
                THEN ret'.err = ErrGroupNotFound
                ELSE /\ ret'.err = NoErr
                     /\ ret'.val.totalCount = Cardinality(members)
                     /\ ret'.val.devices
                          = Slice(SelectSeq(IdSeq(db), LAMBDA id : id \in members),
                                  ret'.arg.skip, ret'.arg.limit)]_vars

(* C16: UpdateDevicesGroup(ids, g) returns no error when ids have no       *)
(* device: matched is the number of ids that exist and modified <= matched;*)
(* afterwards every existing device of ids holds g, no device was created  *)
(* and the devices outside ids are as they were.                           *)
C16_BulkUpdate ==
    [][Returns("UpdateDevicesGroup")
          => /\ ret'.err = NoErr
             /\ ret'.val.matched = Cardinality(ret'.arg.ids \cap Ids(db))
             /\ ret'.val.modified <= ret'.val.matched
             /\ IdSeq(db') = IdSeq(db)
             /\ \A id \in Ids(db) :
                   IF id \in ret'.arg.ids
                   THEN GroupOf(db', id) = {Str(ret'.arg.group)}
                   ELSE Doc(db', id) = Doc(db, id)]_vars

(* A reassignment of d1, d2 and the missing d3 to g1 has matched two       *)
(* devices and modified the one that was not in g1 yet.                    *)
C16_Witness ==
    /\ ret.op = "UpdateDevicesGroup"
    /\ ret.arg = [ids |-> {"d1", "d2", "d3"}, group |-> "g1"]
    /\ ret.err = NoErr
    /\ ret.val = [matched |-> 2, modified |-> 1]
    /\ Ids(db) = {"d1", "d2"}
    /\ Holds(db, "g1") = {"d1", "d2"}

(* C17: UnsetDevicesGroup(ids, g) removes the group attribute from exactly *)
(* the devices that are in ids and hold g and returns their number as the  *)
(* modified count; every device outside ids, in another group or in none   *)
(* is unchanged and no error is reported for it.                           *)
C17_BulkUnset ==
    [][Returns("UnsetDevicesGroup")
          => LET targets == ret'.arg.ids \cap Holds(db, ret'.arg.group)
             IN /\ ret'.err = NoErr
                /\ ret'.val.modified = Cardinality(targets)
                /\ IdSeq(db') = IdSeq(db)
                /\ \A id \in Ids(db) :
                      IF id \in targets
                      THEN EntriesAt(db', id, AttrScopeSystem, AttrNameGroup) = {}
                      ELSE Doc(db', id) = Doc(db, id)]_vars

(* An unset of g1 over d1, d2 and the missing d3 has cleared d2 and left   *)
(* d1 in g2.                                                               *)
C17_Witness ==
    /\ ret.op = "UnsetDevicesGroup"
    /\ ret.arg = [ids |-> {"d1", "d2", "d3"}, group |-> "g1"]
    /\ ret.err = NoErr
    /\ ret.val = [modified |-> 1]
    /\ Ids(db) = {"d1", "d2"}
    /\ GroupOf(db, "d1") = {Str("g2")}
    /\ GroupOf(db, "d2") = {}

(* C18: ListGroups returns, each once, exactly the non-empty group names   *)
(* held by at least one device of the current state: the empty name is     *)
(* never listed, devices without a group add nothing, and a name is gone   *)
(* once its last member is unassigned, reassigned or deleted.              *)
C18_ListGroups ==
    [][Returns("ListGroups")
          => LET held == {g \in Groups : Holds(db, g) # {}}
             IN /\ ret'.err = NoErr
                /\ {ret'.val[i] : i \in 1..Len(ret'.val)} = held
                /\ Len(ret'.val) = Cardinality(held)]_vars

(* C19: when executing the list aggregation fails, or decoding its result  *)
(* fails, GetDevices returns a non-nil wrapped error to its caller; a      *)
(* failed execution is never reported as a successful result.              *)
C19_FailureSurfaced ==
    [][(Returns("GetDevices") /\ ret'.arg.fault # "none")
          => ret'.err \notin {NoErr, Panic}]_vars

(* C20: concurrent UpsertAttributes calls on one device id, existing or    *)
(* not, each take effect as one indivisible write, so that the outcome is  *)
(* that of the calls' writes in the order they were applied: when a call's *)
(* write is applied there is exactly one record for the id, it holds every *)
(* field the call submitted, and every field the record held before (those *)
(* of the other call) is kept unless this call submitted that same field.  *)
C20_IndivisibleMerge ==
    [][\A p \in Procs :
         (WriteReturns(p) /\ call[p].op = "UpsertAttributes" /\ ret'.err = NoErr)
            => /\ Cardinality({i \in 1..Len(db') : db'[i]._id = call[p].id}) = 1
               /\ \A i \in 1..Len(call[p].arg) :
                     LET a == call[p].arg[i]
                     IN /\ Cardinality(EntriesAt(db', call[p].id, SubmittedScope(a), a.Name)) = 1
                        /\ \A e \in EntriesAt(db', call[p].id, SubmittedScope(a), a.Name) :
                              /\ a.Value # Nil => Field(e, "value") = a.Value
                              /\ a.Description # Nil => Field(e, "description") = a.Description
               /\ \A e \in Entries(db, call[p].id) :
                     ~(e.scope = "system" /\ e.name = "updated")
                        => \E e2 \in EntriesAt(db', call[p].id, e.scope, e.name) :
                              /\ ~SubmitsDescription(call[p].arg, e.scope, e.name)
                                    => Field(e2, "description") = Field(e, "description")
                              /\ ~SubmitsValue(call[p].arg, e.scope, e.name)
                                    => Field(e2, "value") = Field(e, "value")]_vars

(* Two calls on a device that did not exist overlapped: the one that       *)
(* submitted the description read the time first and was applied second    *)
(* ('updated' is earlier than 'created'), and the one record holds the     *)
(* value of the one and the description of the other.                      *)
C20_Witness ==
    /\ ret.op = "UpsertAttributes"
    /\ ret.err = NoErr
    /\ ret.arg = <<SnDescription>>
    /\ Len(db) = 1
    /\ EntriesAt(db, ret.id, "inventory", "sn")
         = {[scope |-> "inventory", name |-> "sn",
             value |-> Str("X"), description |-> Str("d")]}
    /\ EntriesAt(db, ret.id, "system", "created") = {Stamp("created", 2)}
    /\ EntriesAt(db, ret.id, "system", "updated") = {Stamp("updated", 1)}

-----------------------------------------------------------------------------
(* NewDataStoreMongo: the process-wide client is set up inside once.Do.    *)
(* The first caller to reach once.Do runs the function, every other caller *)
(* blocks there until that run has finished; afterwards once.Do returns at *)
(* once.  mongo.Connect gives either a client or (nil, error); a failed    *)
(* Ping resets clientGlobal to nil.  connects is the history of the        *)
(* establishment attempts: one entry per call of mongo.Connect, holding    *)
(* "connected" while the Ping is outstanding, then "ok" or "failed".       *)

ErrOpenSession == "failed to open mongo-driver session"

(* A connection string is a sequence of tokens, so that the test for the   *)
(* scheme separator is a test of its content.                              *)
Contains(s, t) == \E i \in DOMAIN s : s[i] = t

ConnectionString(config) ==
    IF ~Contains(config, "://") THEN <<"mongodb", "://">> \o config
                                ELSE config

(* ApplyURI accepts a host after the scheme; a host with a blank in it is  *)
(* refused, and mongo.Connect then returns (nil, error).                   *)
ValidURI(uri) == ~Contains(uri, "illegal url")

ConnectionStrings ==
    {<<"localhost:27017">>, <<"mongodb", "://", "localhost:27017">>,
     <<"illegal url">>}

Client(n, uri) == [client |-> n, uri |-> uri]

DataStoreMongo(client) == [client |-> client]

Attempt(uri, status) == [uri |-> uri, status |-> status]

NewDataStoreMongoCall(p, config) ==
    /\ pc[p] = "idle"
    /\ pc' = [pc EXCEPT ![p] = "once.Do"]
    /\ call' = [call EXCEPT ![p] = [op |-> "NewDataStoreMongo",
                                     config |-> config]]
    /\ UNCHANGED <<db, clock, ret, written, session>>

(* once.Do without its guard: every caller runs the function. *)
OnceDo_Always(p) ==
    /\ pc[p] = "once.Do"
    /\ once' = "running"
    /\ pc' = [pc EXCEPT ![p] = "Connect"]
    /\ UNCHANGED <<db, clock, call, ret, written, clientGlobal, connects>>

OnceDo(p) ==
    /\ pc[p] = "once.Do"
    /\ once = "new"
    /\ once' = "running"
    /\ pc' = [pc EXCEPT ![p] = "Connect"]
    /\ UNCHANGED <<db, clock, call, ret, written, clientGlobal, connects>>

Connect(p, ok) ==
    /\ pc[p] = "Connect"
    /\ LET uri == ConnectionString(call[p].config) IN
       IF ok /\ ValidURI(uri)
          THEN /\ clientGlobal' = Client(Len(connects) + 1, uri)
               /\ connects' = Append(connects, Attempt(uri, "connected"))
               /\ pc' = [pc EXCEPT ![p] = "Ping"]
               /\ UNCHANGED once
          ELSE /\ clientGlobal' = Nil
               /\ connects' = Append(connects, Attempt(uri, "failed"))
               /\ once' = "done"
               /\ pc' = [pc EXCEPT ![p] = "return"]
    /\ UNCHANGED <<db, clock, call, ret, written>>

Ping(p, ok) ==
    /\ pc[p] = "Ping"
    /\ clientGlobal' = IF ok THEN clientGlobal ELSE Nil
    /\ connects' = [connects EXCEPT ![Len(connects)].status =
                                       IF ok THEN "ok" ELSE "failed"]
    /\ once' = "done"
    /\ pc' = [pc EXCEPT ![p] = "return"]
    /\ UNCHANGED <<db, clock, call, ret, written>>

OnceDone(p) ==
    /\ pc[p] = "once.Do"
    /\ once = "done"
    /\ pc' = [pc EXCEPT ![p] = "return"]
    /\ UNCHANGED <<db, clock, call, ret, written, session>>

NewDataStoreMongoReturn(p) ==
    /\ pc[p] = "return"
    /\ ret' = IF clientGlobal = Nil
                THEN Result("NewDataStoreMongo", NilDeviceID, Str(p),
                            ErrOpenSession, Nil)
                ELSE Result("NewDataStoreMongo", NilDeviceID, Str(p),
                            NoErr, DataStoreMongo(clientGlobal))
    /\ pc' = [pc EXCEPT ![p] = "idle"]
    /\ call' = [call EXCEPT ![p] = Idle]
    /\ UNCHANGED <<db, clock, written, session>>

NextConnect ==
    \/ \E p \in Procs, config \in ConnectionStrings :
          NewDataStoreMongoCall(p, config)
    \/ \E p \in Procs : OnceDo(p)
    \/ \E p \in Procs, ok \in BOOLEAN : Connect(p, ok)
    \/ \E p \in Procs, ok \in BOOLEAN : Ping(p, ok)
    \/ \E p \in Procs : OnceDone(p)
    \/ \E p \in Procs : NewDataStoreMongoReturn(p)

SpecConnect == Init /\ [][NextConnect]_vars

-----------------------------------------------------------------------------
(* C21: over any interleaving of NewDataStoreMongo calls mongo.Connect is  *)
(* called at most once; no call returns while the attempt is outstanding;  *)
(* when the attempt succeeded every call returns a store on the one client *)
(* it made, and when it failed every call returns no store and the         *)
(* "failed to open" error.                                                 *)
C21_ConnectOnce ==
    [][/\ Len(connects') <= 1
       /\ Returns("NewDataStoreMongo") =>
            /\ Len(connects) = 1
            /\ connects[1].status \in {"ok", "failed"}
            /\ connects[1].status = "ok" =>
                 /\ ret'.err = NoErr
                 /\ ret'.val = DataStoreMongo(Client(1, connects[1].uri))
            /\ connects[1].status = "failed" =>
                 /\ ret'.err = ErrOpenSession
                 /\ ret'.val = Nil]_vars

(* The caller that did not run the connection has returned the store      *)
(* while the one that did is still on its way out.                        *)
C21_Witness ==
    /\ Len(connects) = 1
    /\ connects[1].status = "ok"
    /\ ret.op = "NewDataStoreMongo"
    /\ ret.arg = Str("p2")
    /\ ret.val = DataStoreMongo(Client(1, connects[1].uri))
    /\ pc["p1"] = "return"

-----------------------------------------------------------------------------
(* Lookup of one device.  A stored document is decoded into a device: its  *)
(* id, its attributes, and as its group the string value of the            *)
(* (system, group) attribute ("" when the document has no such value).     *)

DecodeGroup(doc) ==
    LET v == ValueAt(doc, DbDevAttributesGroupValue)
    IN IF "str" \in DOMAIN v THEN v.str ELSE ""

DecodeDevice(doc) == Device(doc._id, doc.attributes, DecodeGroup(doc))

ErrFetchDevice == "failed to fetch device: find failed"

(* mongo.ErrNoDocuments handed on as any other error. *)
GetDeviceResult_MissIsError(coll, id, fault) ==
    IF id = NilDeviceID THEN [err |-> NoErr, dev |-> Nil]
    ELSE IF fault = "find" \/ id \notin Ids(coll)
         THEN [err |-> ErrFetchDevice, dev |-> Nil]
         ELSE [err |-> NoErr, dev |-> DecodeDevice(Doc(coll, id))]

(* fault "find": FindOne or Decode fails with an error other than          *)
(* mongo.ErrNoDocuments.                                                   *)
GetDeviceResult(coll, id, fault) ==
    IF id = NilDeviceID THEN [err |-> NoErr, dev |-> Nil]
    ELSE IF fault = "find" THEN [err |-> ErrFetchDevice, dev |-> Nil]
    ELSE IF id \notin Ids(coll) THEN [err |-> NoErr, dev |-> Nil]
    ELSE [err |-> NoErr, dev |-> DecodeDevice(Doc(coll, id))]

GetDevice(id, fault) ==
    LET r == GetDeviceResult(db, id, fault)
    IN /\ ret' = Result("GetDevice", id, [fault |-> fault], r.err, r.dev)
       /\ UNCHANGED <<db, clock, pc, call, written, session>>

(* The nil device is not tested for: dev.Group is read through nil. *)
GetDeviceGroupResult_ErrOnly(coll, id, fault) ==
    LET r == GetDeviceResult(coll, id, fault)
    IN IF r.err # NoErr THEN [err |-> ErrDevNotFound, group |-> ""]
       ELSE IF r.dev = Nil THEN [err |-> Panic, group |-> ""]
       ELSE [err |-> NoErr, group |-> r.dev.Group]

GetDeviceGroupResult(coll, id, fault) ==
    LET r == GetDeviceResult(coll, id, fault)
    IN IF r.err # NoErr \/ r.dev = Nil
       THEN [err |-> ErrDevNotFound, group |-> ""]
       ELSE [err |-> NoErr, group |-> r.dev.Group]

GetDeviceGroup(id, fault) ==
    LET r == GetDeviceGroupResult(db, id, fault)
    IN /\ ret' = Result("GetDeviceGroup", id, [fault |-> fault], r.err,
                        Str(r.group))
       /\ UNCHANGED <<db, clock, pc, call, written, session>>

(* Devices added, regrouped, deleted and looked up one call at a time. *)
LookupDevices ==
    {Device("d1", <<SnValue>>, ""), Device("d1", <<SnDescription>>, "g1"),
     Device("d2", <<>>, "g2"), Device("d3", <<Hw>>, "g1")}

LookupIds == {NilDeviceID, "d1", "d2"}

Faults == {"none", "find"}

NextLookup ==
    \/ \E dev \in LookupDevices : AddDevice(dev)
    \/ \E id \in {"d1", "d2"} : DeleteDevice(id)
    \/ UpdateDeviceGroup("d1", "g2")
    \/ UnsetDeviceGroup("d1", "g1")
    \/ \E id \in LookupIds, fault \in Faults : GetDevice(id, fault)
    \/ \E id \in LookupIds, fault \in Faults : GetDeviceGroup(id, fault)

SpecLookup == Init /\ [][NextLookup]_vars

-----------------------------------------------------------------------------
(* C22: GetDevice of the nil device id returns no device and no error      *)
(* whatever the state of the backend (the store is not asked); of an id no *)
(* stored device has, no device and no error; of the id of a stored        *)
(* device, a device with that id and the stored attributes.                *)
C22_GetDevice ==
    [][Returns("GetDevice") =>
        /\ ret'.id = NilDeviceID => ret'.err = NoErr /\ ret'.val = Nil
        /\ ret'.arg.fault = "none" /\ ret'.id \notin Ids(db) =>
             ret'.err = NoErr /\ ret'.val = Nil
        /\ ret'.arg.fault = "none" /\ ret'.id \in Ids(db) =>
             /\ ret'.err = NoErr
             /\ ret'.val # Nil
             /\ ret'.val.ID = ret'.id
             /\ {ret'.val.Attributes[k] : k \in DOMAIN ret'.val.Attributes}
                  = Entries(db, ret'.id)]_vars

(* A lookup of d2, which is not stored while d1 is, came back empty. *)
C22_Witness ==
    /\ ret.op = "GetDevice"
    /\ ret.id = "d2"
    /\ ret.val = Nil
    /\ ret.err = NoErr
    /\ Ids(db) = {"d1"}

(* C23: GetDeviceGroup of a stored device returns no error and the group   *)
(* the device holds, the empty name when it holds none; of an id no stored *)
(* device has it returns ErrDevNotFound.                                   *)
C23_GetDeviceGroup ==
    [][Returns("GetDeviceGroup") /\ ret'.arg.fault = "none" =>
        IF ret'.id \in Ids(db)
        THEN /\ ret'.err = NoErr
             /\ \/ GroupOf(db, ret'.id) = {ret'.val}
                \/ GroupOf(db, ret'.id) = {} /\ ret'.val = Str("")
        ELSE ret'.err = ErrDevNotFound]_vars

(* The group of d1 was read after d1 moved from g1 to g2. *)
C23_Witness ==
    /\ ret.op = "GetDeviceGroup"
    /\ ret.id = "d1"
    /\ ret.val = Str("g2")
    /\ ret.err = NoErr

-----------------------------------------------------------------------------
(* GetAllAttributeNames: one aggregation over the documents in the store.  *)
(* $project with $objectToArray and $unwind give one document per stored   *)
(* attribute entry; $group with _id nil gives, when there is at least one  *)
(* such document, a single document whose allkeys is the $addToSet of the  *)
(* name fields, in an order the server chooses.  With no output document   *)
(* the cursor holds nothing and Decode gives io.EOF.                       *)

Unwind(coll) ==
    {ik \in (1..Len(coll)) \X UNION {DOMAIN coll[j].attributes :
                                        j \in 1..Len(coll)} :
        ik[2] \in DOMAIN coll[ik[1]].attributes}

AddToSet(coll) ==
    {coll[ik[1]].attributes[ik[2]].name :
        ik \in {x \in Unwind(coll) :
                  "name" \in DOMAIN coll[x[1]].attributes[x[2]]}}

Orders(S) ==
    {f \in [1..Cardinality(S) -> S] : \A x \in S : \E i \in DOMAIN f : f[i] = x}

ErrGetAttributes == "failed to get attributes: decode failed"

(* $push in place of $addToSet: one element per stored entry. *)
GetAllAttributeNamesResult_Push(coll, fault) ==
    IF fault = "aggregate" THEN {[err |-> ErrAggregate, names |-> Nil]}
    ELSE IF Unwind(coll) = {} THEN {[err |-> NoErr, names |-> <<>>]}
    ELSE IF fault = "decode" THEN {[err |-> ErrGetAttributes, names |-> Nil]}
    ELSE {[err |-> NoErr,
           names |-> [i \in 1..Cardinality(Unwind(coll)) |->
                        coll[f[i][1]].attributes[f[i][2]].name]] :
             f \in Orders(Unwind(coll))}

GetAllAttributeNamesResult(coll, fault) ==
    IF fault = "aggregate" THEN {[err |-> ErrAggregate, names |-> Nil]}
    ELSE IF Unwind(coll) = {} THEN {[err |-> NoErr, names |-> <<>>]}
    ELSE IF fault = "decode" THEN {[err |-> ErrGetAttributes, names |-> Nil]}
    ELSE {[err |-> NoErr, names |-> f] : f \in Orders(AddToSet(coll))}

GetAllAttributeNames(fault) ==
    \E r \in GetAllAttributeNamesResult(db, fault) :
        /\ ret' = Result("GetAllAttributeNames", NilDeviceID,
                         [fault |-> fault], r.err, r.names)
        /\ UNCHANGED <<db, clock, pc, call, written, session>>

NameDevices == {Device("d1", <<SnValue>>, ""), Device("d2", <<>>, "g1")}

NameFaults == {"none", "aggregate", "decode"}

NextNames ==
    \/ \E dev \in NameDevices : AddDevice(dev)
    \/ UpsertAttributes("d1", <<SnDescription>>)
    \/ \E id \in {"d1", "d2"} : DeleteDevice(id)
    \/ UnsetDeviceGroup("d2", "g1")
    \/ \E fault \in NameFaults : GetAllAttributeNames(fault)

SpecNames == Init /\ [][NextNames]_vars

(* The names held by the devices in the store. *)
StoredNames(coll) == UNION {{e.name : e \in Entries(coll, id)} : id \in Ids(coll)}

Range(seq) == {seq[i] : i \in DOMAIN seq}

-----------------------------------------------------------------------------
(* C24: the names GetAllAttributeNames returns include every attribute     *)
(* name of a successful UpsertAttributes or AddDevice call from the moment *)
(* the call returns, and a name it returns in one state it returns in      *)
(* every later state, whatever is done in between.                         *)
C24_EverSubmitted ==
    [][/\ Returns("UpsertAttributes") /\ ret'.err = NoErr =>
            \A r \in GetAllAttributeNamesResult(db', "none") :
                {ret'.arg[i].Name : i \in 1..Len(ret'.arg)}
                    \subseteq Range(r.names)
       /\ Returns("AddDevice") /\ ret'.err = NoErr =>
            \A r \in GetAllAttributeNamesResult(db', "none") :
                {ret'.arg.Attributes[i].Name : i \in 1..Len(ret'.arg.Attributes)}
                    \subseteq Range(r.names)
       /\ \A r \in GetAllAttributeNamesResult(db, "none") :
            \A r2 \in GetAllAttributeNamesResult(db', "none") :
                Range(r.names) \subseteq Range(r2.names)]_vars

(* C24, as the code has it: GetAllAttributeNames returns, each once, the   *)
(* names of the attributes the devices now in the store hold, and the      *)
(* empty list without error when the store holds no device.                *)
C24_StoredNames ==
    [][Returns("GetAllAttributeNames") /\ ret'.arg.fault = "none" =>
        /\ ret'.err = NoErr
        /\ Range(ret'.val) = StoredNames(db)
        /\ Len(ret'.val) = Cardinality(StoredNames(db))
        /\ db = <<>> => ret'.val = <<>>]_vars

(* The names were listed after d1, which every call on it gives sn, was    *)
(* written and deleted, while d2 is stored.                                *)
C24_Witness ==
    /\ ret.op = "GetAllAttributeNames"
    /\ ret.err = NoErr
    /\ written["d1"] > 0
    /\ "sn" \notin Range(ret.val)
    /\ Ids(db) = {"d2"}

-----------------------------------------------------------------------------
(* C25: DeleteDevice of a stored device returns no error and removes its   *)
(* record with every attribute, leaving each other device as it was;       *)
(* DeleteDevice of an id that is not stored returns ErrDevNotFound and     *)
(* leaves the store as it was.  Right after a successful delete, GetDevice *)
(* of that id finds no device and a second DeleteDevice of it returns      *)
(* ErrDevNotFound.                                                         *)
C25_DeleteDevice ==
    [][/\ Returns("DeleteDevice") =>
            IF ret'.id \in Ids(db)
            THEN /\ ret'.err = NoErr
                 /\ Ids(db') = Ids(db) \ {ret'.id}
                 /\ Entries(db', ret'.id) = {}
                 /\ \A id \in Ids(db') : Doc(db', id) = Doc(db, id)
            ELSE /\ ret'.err = ErrDevNotFound
                 /\ db' = db
       /\ ret.op = "DeleteDevice" /\ ret.err = NoErr =>
            /\ Returns("DeleteDevice") /\ ret'.id = ret.id =>
                 ret'.err = ErrDevNotFound
            /\ Returns("GetDevice") /\ ret'.id = ret.id
                 /\ ret'.arg.fault = "none" =>
                 ret'.err = NoErr /\ ret'.val = Nil]_vars

(* d1 was deleted and looked up again while d2 stays in the store. *)
C25_Witness ==
    /\ ret.op = "GetDevice"
    /\ ret.id = "d1"
    /\ ret.val = Nil
    /\ written["d1"] > 0
    /\ Ids(db) = {"d2"}

-----------------------------------------------------------------------------
(* C26: AddDevice returns no error and stores every attribute of dev; with *)
(* a non-empty dev.Group the device then holds the (system, group)         *)
(* attribute with that value and GetDeviceGroup returns it; with an empty  *)
(* dev.Group the group the device holds, or its holding none, is as        *)
(* before; a device already stored keeps its place, its created stamp and  *)
(* every attribute the call does not name, and no other device changes.    *)
C26_AddDevice ==
    [][Returns("AddDevice") =>
        LET dev == ret'.arg
            id == dev.ID
            attrs == dev.Attributes
        IN /\ ret'.err = NoErr
           /\ Ids(db') = Ids(db) \cup {id}
           /\ \A i \in 1..Len(attrs) :
                \E e \in EntriesAt(db', id, SubmittedScope(attrs[i]), attrs[i].Name) :
                    /\ attrs[i].Value # Nil => Field(e, "value") = attrs[i].Value
                    /\ attrs[i].Description # Nil =>
                         Field(e, "description") = attrs[i].Description
           /\ IF dev.Group # ""
              THEN /\ GroupOf(db', id) = {Str(dev.Group)}
                   /\ GetDeviceGroupResult(db', id, "none")
                        = [err |-> NoErr, group |-> dev.Group]
              ELSE GroupOf(db', id) = GroupOf(db, id)
           /\ id \in Ids(db) =>
                /\ Len(db') = Len(db)
                /\ Index(db', id) = Index(db, id)
                /\ EntriesAt(db', id, AttrScopeSystem, AttrNameCreated)
                     = EntriesAt(db, id, AttrScopeSystem, AttrNameCreated)
                /\ \A e \in Entries(db, id) :
                     \/ Submits(attrs, e.scope, e.name)
                     \/ e.scope = AttrScopeSystem
                         /\ e.name \in {AttrNameUpdated, AttrNameGroup}
                     \/ e \in Entries(db', id)
           /\ \A other \in Ids(db) \ {id} : Doc(db', other) = Doc(db, other)]_vars

(* d1, stored without a group and with a value for sn, was added again     *)
(* with group g1 and a description for sn.                                 *)
C26_Witness ==
    /\ ret.op = "AddDevice"
    /\ ret.id = "d1"
    /\ ret.arg.Group = "g1"
    /\ GroupOf(db, "d1") = {Str("g1")}
    /\ \E e \in EntriesAt(db, "d1", "inventory", "sn") :
          Field(e, "value") = Str("X") /\ Field(e, "description") = Str("d")

-----------------------------------------------------------------------------
(* Sorted listing: devices with a numeric score, stored in any order, one  *)
(* of them also without a score and two of them with the same score.       *)

Score(n) == Attr("", "score", Num(n), Nil)

SortDevices ==
    {Device("d1", <<>>, ""), Device("d1", <<Score(3)>>, ""),
     Device("d2", <<Score(4)>>, ""), Device("d2", <<Score(3)>>, ""),
     Device("d3", <<Score(5)>>, "")}

SortPagings == {<<0, 0>>, <<0, 2>>, <<1, 0>>, <<1, 1>>, <<2, 2>>}

SortQueries ==
    {ListQuery(pg[1], pg[2], <<>>, Sort(AttrScopeInventory, "score", asc), Nil, "") :
        pg \in SortPagings, asc \in BOOLEAN}

NextSort ==
    \/ \E dev \in SortDevices : AddDevice(dev)
    \/ \E id \in {"d1", "d2"} : DeleteDevice(id)
    \/ \E q \in SortQueries : GetDevices(q, "none")

SpecSort == Init /\ [][NextSort]_vars

(* The values device id holds for the attribute a Sort names. *)
SortValues(coll, id, sort) ==
    {Field(e, "value") : e \in EntriesAt(coll, id, sort.AttrScope, sort.AttrName)}
        \ {Nil}

(* seq lists its devices by the value they hold for the attribute, in the  *)
(* direction asked for; devices that hold no value are not constrained.    *)
InSortOrder(coll, seq, sort) ==
    \A i \in DOMAIN seq : \A j \in DOMAIN seq :
        i < j =>
          \A vi \in SortValues(coll, seq[i], sort) :
            \A vj \in SortValues(coll, seq[j], sort) :
              IF sort.Ascending THEN ~BsonLess(vj, vi) ELSE ~BsonLess(vi, vj)

-----------------------------------------------------------------------------
(* C27: a GetDevices call with a Sort returns the skip/limit part of a     *)
(* listing of all the matching devices that is ordered by the value of the *)
(* sort attribute, ascending or descending as asked: the ordering comes    *)
(* before skip and limit.                                                  *)
C27_SortedPage ==
    [][Listed /\ ret'.arg.q.Sort # Nil /\ ret'.arg.q.Skip >= 0 =>
        /\ ret'.err = NoErr
        /\ \E order \in Orders(Matching(db, ret'.arg.q)) :
              /\ InSortOrder(db, order, ret'.arg.q.Sort)
              /\ ret'.val.devices
                   = Slice(order, ret'.arg.q.Skip, ret'.arg.q.Limit)]_vars

(* Devices with score 5, 3 and 4, stored in that order, listed descending  *)
(* with skip 0 and limit 2: the score-5 device, then the score-4 device.   *)
C27_Witness ==
    /\ ret.op = "GetDevices"
    /\ ret.arg.q.Sort = Sort(AttrScopeInventory, "score", FALSE)
    /\ ret.arg.q.Skip = 0
    /\ ret.arg.q.Limit = 2
    /\ IdSeq(db) = <<"d3", "d1", "d2">>
    /\ SortValues(db, "d1", ret.arg.q.Sort) = {Num(3)}
    /\ SortValues(db, "d2", ret.arg.q.Sort) = {Num(4)}
    /\ ret.val.devices = <<"d3", "d2">>

-----------------------------------------------------------------------------
(* C28: a GetDevices call that no stored device matches, the store being   *)
(* empty or not, returns an empty page, totalCount 0 and no error; the     *)
(* count of a listing is never negative.                                   *)
C28_EmptyMatch ==
    [][Listed /\ ret'.arg.q.Skip >= 0 =>
        /\ ret'.val.totalCount >= 0
        /\ Matching(db, ret'.arg.q) = {} =>
             /\ ret'.err = NoErr
             /\ ret'.val.devices = <<>>
             /\ ret'.val.totalCount = 0]_vars

(* A store of two devices, one with the serial number and one in the      *)
(* group, was asked for the devices of the group with the serial number.  *)
C28_Witness ==
    /\ ret.op = "GetDevices"
    /\ ret.arg.fault = "none"
    /\ ret.arg.q.GroupName = "g1"
    /\ ret.arg.q.Filters = <<SnFilter>>
    /\ Len(db) = 2
    /\ Matching(db, ret.arg.q) = {}
    /\ ret.err = NoErr
    /\ ret.val = DeviceList(<<>>, 0)

-----------------------------------------------------------------------------
(* Batches that name one attribute more than once, with and without its    *)
(* scope, and attributes whose storage keys coincide.                      *)

ScopeBatches ==
    {<<SnValue>>, <<SnScoped>>, <<SnDescription>>, <<SnValue, SnScoped>>,
     <<SnScoped, SnValue>>, <<SnValue, SnDescription>>, <<SnHw>>, <<Hw>>}

NextScope ==
    \/ \E b \in ScopeBatches : UpsertAttributes("d1", b)
    \/ \E g \in Groups : AddDevice(Device("d1", <<SnValue>>, g))
    \/ \E g \in Groups : UpdateDeviceGroup("d1", g)
    \/ DeleteDevice("d1")

SpecScope == Init /\ [][NextScope]_vars

(* attrs with every empty scope written out as the inventory scope. *)
Explicit(attrs) ==
    [i \in DOMAIN attrs |->
        IF attrs[i].Scope = "" THEN [attrs[i] EXCEPT !.Scope = "inventory"]
        ELSE attrs[i]]

-----------------------------------------------------------------------------
(* C29: in every state every stored attribute entry has a scope and a name *)
(* and no device holds two entries with the same scope and name.           *)
C29_UniqueAttributes ==
    \A i \in 1..Len(db) :
        \A k1 \in DOMAIN db[i].attributes : \A k2 \in DOMAIN db[i].attributes :
            /\ {"scope", "name"} \subseteq DOMAIN db[i].attributes[k1]
            /\ (/\ db[i].attributes[k1].scope = db[i].attributes[k2].scope
                /\ db[i].attributes[k1].name = db[i].attributes[k2].name)
                 => k1 = k2

(* A batch naming sn twice, once without scope and once in the inventory   *)
(* scope, was stored on a device that held sn already.                     *)
C29_Witness ==
    /\ ret.op = "UpsertAttributes"
    /\ ret.arg = <<SnValue, SnScoped>>
    /\ ret.err = NoErr
    /\ \E e \in EntriesAt(db, "d1", "inventory", "sn") :
          Field(e, "description") = Str("d")

(* C30: an UpsertAttributes call leaves the store as the same call with    *)
(* every empty scope written out as "inventory" leaves it; an attribute    *)
(* submitted without scope is afterwards held in scope "inventory", and no *)
(* entry has the empty scope.                                              *)
C30_DefaultScope ==
    [][Returns("UpsertAttributes") /\ ret'.err = NoErr =>
        /\ db' = UpsertAttributesResult(db, ret'.id, Explicit(ret'.arg), clock).coll
        /\ \A i \in 1..Len(ret'.arg) :
             ret'.arg[i].Scope = "" =>
               EntriesAt(db', ret'.id, "inventory", ret'.arg[i].Name) # {}
        /\ \A e \in Entries(db', ret'.id) : e.scope # ""]_vars

(* sn was submitted without scope to a device that did not hold it and is  *)
(* held in the inventory scope.                                            *)
C30_Witness ==
    /\ ret.op = "UpsertAttributes"
    /\ ret.arg = <<SnValue>>
    /\ ret.err = NoErr
    /\ EntriesAt(db, "d1", "inventory", "sn")
         = {[scope |-> "inventory", name |-> "sn", value |-> Str("X")]}

-----------------------------------------------------------------------------
(* GetDevicesByGroup as its callers interleave with writers.  The handler  *)
(* makes two calls: FindOne on the group value, whose result is decoded,   *)
(* and then the Aggregate of GetDevices.  FindOne always gives a result    *)
(* object; what went wrong, if anything, comes out of Decode.  fault is    *)
(* what goes wrong in the first call: "none", "find" (the backend fails),  *)
(* "decode" (the document found does not decode).                          *)

ErrNoDocuments == "mongo: no documents in result"
ErrFind == "find failed"
ErrDecodeDevice == "decode failed"

FindOneGroup(coll, group, fault) ==
    IF fault = "find" THEN ErrFind
    ELSE IF \A i \in 1..Len(coll) :
              ~MatchEq(coll[i], DbDevAttributesGroupValue, Str(group))
    THEN ErrNoDocuments
    ELSE IF fault = "decode" THEN ErrDecodeDevice
    ELSE NoErr

GroupQuery(group, skip, limit) ==
    ListQuery(skip, limit, <<>>, Nil, Ptr(group # ""), group)

GetDevicesByGroupCall(p, group, skip, limit, fault) ==
    LET arg == [group |-> group, skip |-> skip, limit |-> limit, fault |-> fault]
    IN /\ pc[p] = "idle"
       /\ IF FindOneGroup(db, group, fault) # NoErr
          THEN /\ ret' = Result("GetDevicesByGroup", NilDeviceID, arg,
                                ErrGroupNotFound, DeviceList(<<>>, -1))
               /\ UNCHANGED <<pc, call>>
          ELSE /\ pc' = [pc EXCEPT ![p] = "GetDevices"]
               /\ call' = [call EXCEPT ![p] =
                             [op |-> "GetDevicesByGroup", id |-> NilDeviceID,
                              arg |-> arg]]
               /\ UNCHANGED ret
       /\ UNCHANGED <<db, clock, written, session>>

GetDevicesByGroupReturn(p) ==
    LET c == call[p]
    IN /\ pc[p] = "GetDevices"
       /\ \E a \in Aggregate(db, GroupQuery(c.arg.group, c.arg.skip, c.arg.limit)) :
            LET r == GetDevicesReturn(a, "none")
            IN ret' = Result(c.op, c.id, c.arg, WrapGroupList(r.err),
                             IF r.err = NoErr THEN r.val
                             ELSE DeviceList(<<>>, -1))
       /\ pc' = [pc EXCEPT ![p] = "idle"]
       /\ call' = [call EXCEPT ![p] = Idle]
       /\ UNCHANGED <<db, clock, written, session>>

ByGroupDevices == {Device("d1", <<>>, "g1"), Device("d2", <<>>, "g1")}

ByGroupFaults == {"none", "find", "decode"}

NextByGroupConc ==
    \/ \E dev \in ByGroupDevices : AddDevice(dev)
    \/ UnsetDeviceGroup("d1", "g1")
    \/ UnsetDevicesGroup({"d1", "d2"}, "g1")
    \/ \E g \in {"g2", ""} : UpdateDeviceGroup("d1", g)
    \/ DeleteDevice("d2")
    \/ \E p \in Procs, g \in {"g1", ""}, limit \in {0, 1}, fault \in ByGroupFaults :
          GetDevicesByGroupCall(p, g, 0, limit, fault)
    \/ \E p \in Procs : GetDevicesByGroupReturn(p)

SpecByGroupConc == Init /\ [][NextByGroupConc]_vars

-----------------------------------------------------------------------------
(* C31: GetDevicesByGroup returns ErrGroupNotFound only when no device     *)
(* holds the group; when the existence check fails at the backend or in    *)
(* decoding, the call returns an error that is not ErrGroupNotFound.       *)
C31_NotFoundOnlyWhenNone ==
    [][Returns("GetDevicesByGroup") =>
        /\ ret'.err = ErrGroupNotFound => Holds(db, ret'.arg.group) = {}
        /\ \/ ret'.arg.fault = "find"
           \/ ret'.arg.fault = "decode" /\ Holds(db, ret'.arg.group) # {}
           => ret'.err \notin {NoErr, ErrGroupNotFound}]_vars

------------------------------------------------------------------------------
(* AddDevice with and without a device. *)

AddDevices ==
    {Nil, Device("d1", <<SnValue>>, ""), Device("d1", <<SnDescription>>, "g1"),
     Device("d2", <<NoName>>, "g2"), Device("d2", <<>>, "g2")}

NextAdd ==
    \/ \E dev \in AddDevices : AddDevice(dev)
    \/ \E b \in {<<SnScoped>>, <<SnHw>>} : UpsertAttributes("d1", b)
    \/ \E id \in {"d1", "d2"} : DeleteDevice(id)

SpecAdd == Init /\ [][NextAdd]_vars

(* C32: AddDevice called with no device (a nil device) returns an error to *)
(* its caller and stores nothing.                                          *)
C32_NilDevice ==
    [][Returns("AddDevice") /\ ret'.arg = Nil =>
        /\ ret'.err \notin {NoErr, Panic}
        /\ db' = db]_vars

(* C33: two attributes with different (scope, name) pairs, scopes and      *)
(* names non-empty, are stored as two separate entries of a device: a      *)
(* successful upsert leaves the entry of every pair it does not submit     *)
(* stored under that pair and as it was (the 'updated' timestamp, which    *)
(* the upsert writes itself, aside).                                       *)
C33_SeparateEntries ==
    [][(Returns("UpsertAttributes") /\ ret'.err = NoErr)
          => \A e \in Entries(db, ret'.id) :
                (/\ e.scope # "" /\ e.name # ""
                 /\ ~Submits(ret'.arg, e.scope, e.name)
                 /\ <<e.scope, e.name>> # <<AttrScopeSystem, AttrNameUpdated>>)
                   => EntriesAt(db', ret'.id, e.scope, e.name) = {e}]_vars

------------------------------------------------------------------------------
(* The four group writes on devices that hold other attributes, as the     *)
(* clock advances.                                                         *)

FrameDevices == {Device("d1", <<SnValue>>, ""), Device("d2", <<SnDescription>>, "g1")}

FrameIds == {{}, {"d1"}, {"d1", "d2"}, {"d2", "d3"}}

NextFrame ==
    \/ Tick
    \/ \E dev \in FrameDevices : AddDevice(dev)
    \/ UpsertAttributes("d1", <<GroupDescription>>)
    \/ \E id \in {"d1", "d3"}, g \in Groups : UpdateDeviceGroup(id, g)
    \/ \E id \in {"d2", "d3"}, g \in Groups : UnsetDeviceGroup(id, g)
    \/ \E ids \in FrameIds : UpdateDevicesGroup(ids, "g2")
    \/ \E ids \in FrameIds : UnsetDevicesGroup(ids, "g2")

SpecFrame == Init /\ [][NextFrame]_vars

GroupWrites == {"UpdateDeviceGroup", "UnsetDeviceGroup", "UpdateDevicesGroup", "UnsetDevicesGroup"}

(* The entries of device id other than its (system, group) entry. *)
OtherEntries(coll, id) ==
    {e \in Entries(coll, id) : <<e.scope, e.name>> # <<AttrScopeSystem, AttrNameGroup>>}

(* The devices a returned group write named. *)
Targets(r) == IF r.op \in {"UpdateDeviceGroup", "UnsetDeviceGroup"} THEN {r.id} ELSE r.arg.ids

(* C34: UpdateDeviceGroup, UnsetDeviceGroup, UpdateDevicesGroup and        *)
(* UnsetDevicesGroup change nothing but the (system, group) attribute of   *)
(* the devices they target: the set of device ids, every other attribute   *)
(* of every device (the 'created' and 'updated' timestamps among them) and *)
(* every device they do not target are the same before and after the call, *)
(* whether it succeeds or returns DeviceNotFound.                          *)
C34_GroupWriteFrame ==
    [][(\E op \in GroupWrites : Returns(op))
          => /\ Ids(db') = Ids(db)
             /\ \A id \in Ids(db) : OtherEntries(db', id) = OtherEntries(db, id)
             /\ \A id \in Ids(db) \ Targets(ret') : Entries(db', id) = Entries(db, id)]_vars

(* A group write has just given a device that holds a serial number and    *)
(* was written before the present time a group.                            *)
C34_Witness ==
    /\ ret.op \in {"UpdateDeviceGroup", "UpdateDevicesGroup"}
    /\ ret.err = NoErr
    /\ GroupOf(db, "d1") = {Str("g2")}
    /\ EntriesAt(db, "d1", "inventory", "sn") # {}
    /\ \E u \in EntriesAt(db, "d1", AttrScopeSystem, AttrNameUpdated) : u.value = Time(1)
    /\ clock = 2

(* C35: in every state reachable through AddDevice, UpsertAttributes and   *)
(* the group set and unset operations, a device has a (system, group)      *)
(* entry if and only if it holds a non-empty group value, so that the      *)
(* readers asking for the entry and the readers asking for the value       *)
(* classify the same devices as grouped.                                   *)
C35_EntryIffGroup ==
    \A id \in Ids(db) :
        (EntriesAt(db, id, AttrScopeSystem, AttrNameGroup) # {})
            <=> (\E e \in EntriesAt(db, id, AttrScopeSystem, AttrNameGroup) :
                    Field(e, "value") \notin {Nil, Str("")})

(* C36: whenever GetDevicesByGroup(g, skip, limit) returns without error,  *)
(* its totalCount is at least 1, for every group name g, the empty name    *)
(* included, and for every interleaving with unset, reassign and delete    *)
(* calls that take members out of g while the call runs.                   *)
C36_CountAtLeastOne ==
    [][(Returns("GetDevicesByGroup") /\ ret'.err = NoErr)
          => ret'.val.totalCount >= 1]_vars

====
